---------------------------- MODULE Spec2Model ----------------------------
(***************************************************************************)
(* CrowdRunner: the modifier orchestration of EnhancedGameManager and the  *)
(* leaf systems it drives.                                                 *)
(*                                                                         *)
(* Units.  The source computes with IEEE doubles; the model computes the   *)
(* same quantities exactly, as integers at fixed scales:                   *)
(*   time (deltaTime, buff and combo timers)      tenths of a second       *)
(*   adjustedDelta, spawnTimer                    1/3000 second            *)
(*   positions x, z and the distance travelled    1/300 world unit         *)
(*   dangerLevel                                  twentieths               *)
(*   comeback gateValueMultiplier                 fortieths                *)
(*   comeback enemyStrengthMultiplier             two-hundredths           *)
(* With these scales adjustedDelta*10 (the per-tick movement of obstacles  *)
(* and the distance gain) is the integer Adjusted(...) below.              *)
(***************************************************************************)
EXTENDS Integers, Sequences, FiniteSets, TLC

Max(a, b) == IF a >= b THEN a ELSE b
Min(a, b) == IF a <= b THEN a ELSE b

(***************************************************************************)
(* Bounds of the model (not program constants).                            *)
(***************************************************************************)
\* Actions taken in one behaviour of the game specification.
MaxSteps == 5
\* Power-up entities that the random spawner may put on the field in one behaviour.
MaxFieldSpawns == 1
\* Calls made in one behaviour of a leaf-system specification.
MaxCalls == 4
\* Calls made in one behaviour of the collision-handler specification.
MaxHandlerCalls == 2
MaxWalkCalls == 2
MaxAdaptiveCalls == 5
MaxRecorded == 7
MaxCrowdUpdates == 2
MaxComboCalls == 21
MaxMomentumCalls == 9
MaxSpeedSteps == 4
MaxClockCalls == 4
MaxRegenCalls == 6
MaxPatternCalls == 5

\* Frame lengths (tenths of a second) offered to the game loop: 1 s and 5 s.
DeltaTimes == {10, 50}
\* Lane directions the input handler may report in a tick.
InputDirections == {0, 1}
\* Lanes the random spawners may choose.
SpawnLanes == {0}
\* Obstacles the random spawner may choose: kind, value, trap gate value (0: no trap).
ObstacleChoices ==
    { [kind |-> "gate", value |-> 20, trap |-> 0],
      [kind |-> "enemy", value |-> 25, trap |-> 0],
      [kind |-> "enemy", value |-> 10, trap |-> 0] }
\* Power-up types the random spawner may choose.
FieldSpawnTypes == {"shield", "speed_boost"}
\* The three draws of a power-up rain.
RainChoices ==
    { << [lane |-> 0, type |-> "shield"], [lane |-> 0, type |-> "speed_boost"],
         [lane |-> 0, type |-> "shield"] >> }
\* Draws of rollCritical, in ten-thousandths: ultra, mega, normal, no critical hit.
CritRolls == {0, 100, 500, 5000}
\* Crowd sizes passed to the comeback system, distances (in world units) passed to the
\* difficulty system, and frame lengths passed to a leaf's update().
CrowdSizes == {0, 1, 5, 6, 10, 12, 20, 30, 40, 100}
Distances == {0, 99, 100, 250, 899, 999, 1500}
LeafDeltaTimes == {50}
\* The states in which the collision handlers are entered: crowd size, active buffs,
\* gate streak, combo count, and the obstacle in contact with the player.
HandlerCrowds == {14, 22, 24, 40}
HandlerBuffs == SUBSET {"ghost", "shield", "vampire", "frenzy"}
HandlerStreaks == {0, 3, 5, 8}
HandlerCombos == {2}
HandlerGateValues == {10, 20, 30, 50}
HandlerEnemyCounts == {10, 25, 49}
\* Buff types and durations passed to the buff registry on its own.
LeafPowerUpTypes == {"shield", "ghost", "frenzy"}
LeafDurations == {20, 50}
LeafTickLengths == {10, 30}
PatternTickLengths == {20, 200}
LaneTickLengths == {50, 250}
\* Values getRandomInterval() may return, and events selectRandomEvent() may return.
EventIntervals == {300}
EventPicks == {"feast"}
LeafEventIntervals == {300, 599}
LeafEventPicks == {"jackpot", "feast", "double_trouble"}
EventTickLengths == {50, 100, 300}
MutationRolls == {0, 14, 15, 50}
LeafCritRolls == {0, 49, 50, 99, 100, 199, 200, 399, 400, 999, 1000, 1999, 2000, 5000}
LeafCritBases == {1, 7, 30}
LuckMultipliers == {-50, 0, 100, 200}
AdaptiveTickLengths == {50, 150}
AdaptiveCrowdSizes == {0, 100, 500}
ComboTickLengths == {5, 25, 30}
MomentumTickLengths == {50, 150, 200}
\* Speeds the UI slider may report.
ManualSpeeds == {1, 2}
\* The buffs getSpeedMultiplier() reads, and the duration they are collected with.
SpeedBuffTypes == {"speed_boost", "time_slow"}
SpeedBuffDurations == {50}
\* What performance.now() may have advanced by when a method reads it, in tenths of a
\* second.
ClockAdvances == {10, 50}
\* Lateral distances of a passing enemy, in tenths, and the game times passed to
\* checkNearMiss.
LateralDistances == {5, 15, 25, 40}
NearMissTimes == {10, 30}
\* The draws of rollMutation: no mutation, a tank, a regenerating enemy.
ClockMutationDraws == {<<50, 0>>, <<0, 10>>, <<0, 60>>}
\* Durations, in tenths, and chances, in hundredths, passed to the public setters.
WrittenDurations == {-10, 0, 50}
WrittenBuffs == {"shield", "regen"}
WrittenChances == {-10, 0, 15, 100, 150}
\* Frame lengths (tenths of a second) of the ticks with the regeneration buff.
RegenTickLengths == {1, 5, 10}
\* Durations (tenths of a second) passed to activatePowerUp(REGEN, duration).
RegenDurations == {20, 100}

(***************************************************************************)
(* Config.ts                                                               *)
(***************************************************************************)
INITIAL_CROWD_COUNT == 20
MAX_OBSTACLES_ON_SCREEN == 15
REGEN_RATE_PER_SECOND == 3
\* VAMPIRE_STEAL_PERCENT = 0.5 and FRENZY_MULTIPLIER = 2.0 as fractions.
VampireSteal(enemyCount) == enemyCount \div 2
FrenzyValue(gateValue) == gateValue * 2

LaneX(lane) == lane * 1500             \* Config.LANES: -5, 0, 5
PLAYER_Z_POSITION == -3000             \* -10
OBSTACLE_SPAWN_DISTANCE == 30000       \* 100
OBSTACLE_DESPAWN_DISTANCE == -6000     \* -20
COLLISION_RADIUS == 600                \* 2
GATE_COLLISION_RADIUS == 900           \* 3
POWER_UP_COLLISION_RADIUS == 450       \* 1.5
POWER_UP_SPAWN_Z == 15000              \* 50
TRAP_GATE_OFFSET == 4500               \* 15
LANE_SWITCH_DURATION == 900            \* 0.3 s of adjusted time

GameStates == {"LOADING", "MENU", "PLAYING", "PAUSED", "GAME_OVER"}

(***************************************************************************)
(* PowerUpManager: the timed buff registry.                                *)
(***************************************************************************)
PowerUpTypes ==
    {"shield", "magnet", "speed_boost", "multiplier",
     "vampire", "ghost", "regen", "time_slow", "frenzy"}

\* PowerUp.CONFIGS[type].duration, in tenths of a second.
PowerUpDuration(type) ==
    CASE type = "shield" -> 100
      [] type = "magnet" -> 80
      [] type = "speed_boost" -> 60
      [] type = "multiplier" -> 120

NoPowerUp == [active |-> FALSE, timeRemaining |-> 0, duration |-> 0]
NoPowerUps == [t \in PowerUpTypes |-> NoPowerUp]

IsActive(pm, type) == pm[type].active
HasShield(pm) == IsActive(pm, "shield")
HasGhost(pm) == IsActive(pm, "ghost")
HasVampire(pm) == IsActive(pm, "vampire")
HasRegen(pm) == IsActive(pm, "regen")
HasFrenzy(pm) == IsActive(pm, "frenzy")
HasSpeedBoost(pm) == IsActive(pm, "speed_boost")
HasTimeSlow(pm) == IsActive(pm, "time_slow")

\* activatePowerUp overwriting the time left of an active entry.
ActivatePowerUpOverwriting(pm, type, duration) ==
    [pm EXCEPT ![type] = [active |-> TRUE, timeRemaining |-> duration,
                          duration |-> duration]]

ActivatePowerUp(pm, type, duration) ==
    IF pm[type].active
    THEN [pm EXCEPT ![type].timeRemaining = Max(@, duration),
                    ![type].duration = duration]
    ELSE [pm EXCEPT ![type] = [active |-> TRUE, timeRemaining |-> duration,
                               duration |-> duration]]

\* getSpeedMultiplier with the time slow replacing the speed boost, in tenths.
PowerUpSpeedMultiplierSlowOnly(pm) ==
    CASE HasTimeSlow(pm) -> 6
      [] HasSpeedBoost(pm) /\ ~HasTimeSlow(pm) -> 15
      [] OTHER -> 10

\* getSpeedMultiplier, in tenths: 1.5 with speed boost, 0.6 with time slow, 0.9 with both.
PowerUpSpeedMultiplier(pm) ==
    CASE HasSpeedBoost(pm) /\ HasTimeSlow(pm) -> 9
      [] HasSpeedBoost(pm) /\ ~HasTimeSlow(pm) -> 15
      [] ~HasSpeedBoost(pm) /\ HasTimeSlow(pm) -> 6
      [] OTHER -> 10

ConsumeShield(pm) ==
    IF HasShield(pm) THEN [pm EXCEPT !["shield"] = NoPowerUp] ELSE pm

\* The types update(deltaTime) collects in expiredTypes and reports to onPowerUpExpired.
ExpiredTypes(pm, deltaTime) ==
    {t \in PowerUpTypes : pm[t].active /\ pm[t].timeRemaining - deltaTime <= 0}

\* update removing an entry only once its time left is below 0.
PowerUpManagerUpdateLate(pm, deltaTime) ==
    [t \in PowerUpTypes |->
        IF ~pm[t].active THEN pm[t]
        ELSE IF pm[t].timeRemaining - deltaTime < 0 THEN NoPowerUp
        ELSE [pm[t] EXCEPT !.timeRemaining = @ - deltaTime]]

PowerUpManagerUpdate(pm, deltaTime) ==
    [t \in PowerUpTypes |->
        IF ~pm[t].active THEN pm[t]
        ELSE IF pm[t].timeRemaining - deltaTime <= 0 THEN NoPowerUp
        ELSE [pm[t] EXCEPT !.timeRemaining = @ - deltaTime]]

(***************************************************************************)
(* ComboSystem                                                             *)
(***************************************************************************)
COMBO_TIMEOUT == 30

NewCombo == [comboCount |-> 0, comboTimer |-> 0, maxCombo |-> 0]

AddToCombo(c) ==
    [comboCount |-> c.comboCount + 1,
     comboTimer |-> COMBO_TIMEOUT,
     maxCombo |-> Max(c.maxCombo, c.comboCount + 1)]

\* resetCombo() leaving comboTimer as it is.
ResetComboKeepingTimer(c) ==
    IF c.comboCount > 0 THEN [c EXCEPT !.comboCount = 0] ELSE c

ResetCombo(c) ==
    IF c.comboCount > 0 THEN [c EXCEPT !.comboCount = 0, !.comboTimer = 0] ELSE c

\* resetCombo() calls onComboExpired.
ResetComboExpires(c) == c.comboCount > 0

\* getMultiplier() with > for >=, in tenths.
GetMultiplierAbove(c) ==
    IF c.comboCount > 15 THEN 30
    ELSE IF c.comboCount > 10 THEN 25
    ELSE IF c.comboCount > 6 THEN 20
    ELSE IF c.comboCount > 3 THEN 15
    ELSE 10

\* getMultiplier(), in tenths.
GetMultiplier(c) ==
    IF c.comboCount >= 15 THEN 30
    ELSE IF c.comboCount >= 10 THEN 25
    ELSE IF c.comboCount >= 6 THEN 20
    ELSE IF c.comboCount >= 3 THEN 15
    ELSE 10

\* The timeout test of update(), after comboTimer -= deltaTime.
Expire(c) == IF c.comboTimer <= 0 THEN ResetCombo(c) ELSE c

\* update(deltaTime) resetting only when comboTimer has gone below 0.
ComboUpdateBelowZero(c, deltaTime) ==
    IF c.comboTimer > 0
    THEN IF c.comboTimer - deltaTime < 0
         THEN ResetCombo([c EXCEPT !.comboTimer = @ - deltaTime])
         ELSE [c EXCEPT !.comboTimer = @ - deltaTime]
    ELSE c

ComboUpdate(c, deltaTime) ==
    IF c.comboTimer > 0 THEN Expire([c EXCEPT !.comboTimer = @ - deltaTime]) ELSE c

\* update(deltaTime) reaches resetCombo() and that calls onComboExpired.
ComboUpdateExpires(c, deltaTime) ==
    /\ c.comboTimer > 0
    /\ ComboUpdate(c, deltaTime).comboTimer <= 0
    /\ ResetComboExpires(c)

(***************************************************************************)
(* MomentumSystem                                                          *)
(***************************************************************************)
AUTO_SHIELD_TIME == 200

NewMomentum ==
    [consecutiveGates |-> 0, consecutiveNoDamage |-> 0,
     currentTier |-> "NONE", noDamageTimer |-> 0]

TierOf(consecutiveGates) ==
    IF consecutiveGates >= 8 THEN "UNSTOPPABLE"
    ELSE IF consecutiveGates >= 5 THEN "BLAZING"
    ELSE IF consecutiveGates >= 3 THEN "HOT"
    ELSE "NONE"

UpdateTier(m) == [m EXCEPT !.currentTier = TierOf(m.consecutiveGates)]

\* updateTier() calls onTierChange: the tier passed to it, or "none".
UpdateTierFires(m) ==
    IF TierOf(m.consecutiveGates) # m.currentTier THEN TierOf(m.consecutiveGates)
    ELSE "none"

\* getGateMultiplier() with the multipliers of BLAZING and HOT exchanged.
GetGateMultiplierExchanged(m) ==
    CASE m.currentTier = "HOT" -> 150
      [] m.currentTier = "BLAZING" -> 125
      [] m.currentTier = "UNSTOPPABLE" -> 200
      [] OTHER -> 100

\* getGateMultiplier(), in hundredths.
GetGateMultiplier(m) ==
    CASE m.currentTier = "HOT" -> 125
      [] m.currentTier = "BLAZING" -> 150
      [] m.currentTier = "UNSTOPPABLE" -> 200
      [] OTHER -> 100

OnGateCollected(m) == UpdateTier([m EXCEPT !.consecutiveGates = @ + 1])

OnEnemyHit(m) ==
    UpdateTier([m EXCEPT !.consecutiveGates = 0, !.consecutiveNoDamage = 0,
                         !.noDamageTimer = 0])

\* floor(gateValue * getGateMultiplier()): 1.25, 1.5 and 2.0 are exact in binary.
MomentumGateValue(m, gateValue) ==
    CASE m.currentTier = "HOT" -> (gateValue * 5) \div 4
      [] m.currentTier = "BLAZING" -> (gateValue * 3) \div 2
      [] m.currentTier = "UNSTOPPABLE" -> gateValue * 2
      [] OTHER -> gateValue

\* The auto-shield test of update() without the test of consecutiveNoDamage.
GrantAutoShieldAgain(m) ==
    IF m.noDamageTimer >= AUTO_SHIELD_TIME
    THEN [m |-> [m EXCEPT !.consecutiveNoDamage = 1], autoShield |-> TRUE]
    ELSE [m |-> m, autoShield |-> FALSE]

\* The auto-shield test of update(), after noDamageTimer += deltaTime: the new state
\* and whether onAutoShield was called.
GrantAutoShield(m) ==
    IF m.noDamageTimer >= AUTO_SHIELD_TIME /\ m.consecutiveNoDamage = 0
    THEN [m |-> [m EXCEPT !.consecutiveNoDamage = 1], autoShield |-> TRUE]
    ELSE [m |-> m, autoShield |-> FALSE]

MomentumUpdate(m, deltaTime) ==
    GrantAutoShield([m EXCEPT !.noDamageTimer = @ + deltaTime])

(***************************************************************************)
(* ComebackSystem                                                          *)
(***************************************************************************)
LOW_CROWD_THRESHOLD == 30
CRITICAL_CROWD_THRESHOLD == 10
SECOND_CHANCE_THRESHOLD == 5
HELP_COOLDOWN == 100

NewComeback ==
    [isInDanger |-> FALSE, dangerLevel |-> 0, mechanicsActive |-> {},
     secondChanceUsed |-> FALSE, timeSinceLastHelp |-> 0,
     gateValueMultiplier |-> 40, enemyStrengthMultiplier |-> 200]

\* The danger level of a crowd size, in twentieths:
\* 1.0 - (crowdSize - 10) / (30 - 10) = (30 - crowdSize) / 20.
DangerOf(crowdSize) ==
    IF crowdSize <= CRITICAL_CROWD_THRESHOLD THEN 20
    ELSE IF crowdSize <= LOW_CROWD_THRESHOLD THEN LOW_CROWD_THRESHOLD - crowdSize
    ELSE 0

\* dangerLevel > previousDangerLevel + 0.3 as the doubles decide it: the sum
\* previous + 0.3 rounds below the exact sum for the previous levels 0, 0.1, 0.2,
\* 0.35 and 0.6, where a rise of exactly 0.3 therefore counts as "more than 0.3".
DangerRose(previous, current) ==
    \/ current > previous + 6
    \/ <<previous, current>> \in {<<0, 6>>, <<2, 8>>, <<4, 10>>, <<7, 13>>, <<12, 18>>}

\* updateMultipliers writing nothing when the crowd is out of danger.
UpdateMultipliersStale(cb) ==
    IF cb.isInDanger
    THEN [cb EXCEPT !.gateValueMultiplier = 40 + cb.dangerLevel,
                    !.enemyStrengthMultiplier = 200 - 3 * cb.dangerLevel,
                    !.mechanicsActive = @ \cup {"gate_boost", "enemy_reduction"}]
    ELSE cb

\* updateMultipliers
UpdateMultipliers(cb) ==
    IF cb.isInDanger
    THEN [cb EXCEPT !.gateValueMultiplier = 40 + cb.dangerLevel,
                    !.enemyStrengthMultiplier = 200 - 3 * cb.dangerLevel,
                    !.mechanicsActive = @ \cup {"gate_boost", "enemy_reduction"}]
    ELSE [cb EXCEPT !.gateValueMultiplier = 40,
                    !.enemyStrengthMultiplier = 200,
                    !.mechanicsActive = @ \ {"gate_boost", "enemy_reduction"}]

\* The mechanic triggerActiveComebackMechanic chooses; coin is the outcome of
\* Math.random() < 0.5.
HelpType(cb, coin) ==
    IF cb.dangerLevel >= 16 /\ coin THEN "powerup_rain" ELSE "shield_grant"

\* triggerActiveComebackMechanic.  The result carries the mechanic passed to
\* onComebackTriggered ("none": no call).
TriggerActiveComebackMechanic(cb, coin) ==
    IF cb.timeSinceLastHelp < HELP_COOLDOWN
    THEN [cb |-> cb, triggered |-> "none"]
    ELSE [cb |-> [cb EXCEPT !.mechanicsActive = @ \cup {HelpType(cb, coin)},
                            !.timeSinceLastHelp = 0],
          triggered |-> HelpType(cb, coin)]

\* The end of updateCrowdSize: cb has the new danger level and multipliers.
CheckDangerRise(previousDangerLevel, cb, coin) ==
    IF DangerRose(previousDangerLevel, cb.dangerLevel)
    THEN TriggerActiveComebackMechanic(cb, coin)
    ELSE [cb |-> cb, triggered |-> "none"]

UpdateCrowdSize(cb, crowdSize, coin) ==
    CheckDangerRise(cb.dangerLevel,
                    UpdateMultipliers([cb EXCEPT !.dangerLevel = DangerOf(crowdSize),
                                                 !.isInDanger = DangerOf(crowdSize) > 0]),
                    coin)

\* checkSecondChance without the test of secondChanceUsed.
CheckSecondChanceRepeatable(cb, crowdSize) ==
    IF crowdSize <= SECOND_CHANCE_THRESHOLD /\ crowdSize > 0
    THEN [cb |-> [cb EXCEPT !.secondChanceUsed = TRUE], result |-> TRUE]
    ELSE [cb |-> cb, result |-> FALSE]

\* checkSecondChance: the new state and the value returned; onSecondChanceUsed is
\* called exactly when the value is TRUE.
CheckSecondChance(cb, crowdSize) ==
    IF ~cb.secondChanceUsed /\ crowdSize <= SECOND_CHANCE_THRESHOLD /\ crowdSize > 0
    THEN [cb |-> [cb EXCEPT !.secondChanceUsed = TRUE], result |-> TRUE]
    ELSE [cb |-> cb, result |-> FALSE]

ComebackUpdate(cb, deltaTime) == [cb EXCEPT !.timeSinceLastHelp = @ + deltaTime]

\* floor(value * gateValueMultiplier).  The double product falls just below the
\* exact one, and the floor one lower, for 45 * 1.4 and 100 * 1.15.
ComebackGateValue(cb, gateValue) ==
    LET exact == (gateValue * cb.gateValueMultiplier) \div 40
    IN  IF <<gateValue, cb.gateValueMultiplier>> \in {<<45, 56>>, <<100, 46>>}
        THEN exact - 1 ELSE exact

\* floor(enemyCount * enemyStrengthMultiplier).
ComebackEnemyCount(cb, enemyCount) ==
    (enemyCount * cb.enemyStrengthMultiplier) \div 200

(***************************************************************************)
(* DifficultySystem                                                        *)
(***************************************************************************)
MAX_LEVEL == 10
\* 100 units of distance per level.
LEVEL_DISTANCE == 30000

NewDifficulty == [distance |-> 0, currentLevel |-> 1]

\* min(floor(distance / 100) + 1, maxLevel)
LevelAt(dist) == Min((dist \div LEVEL_DISTANCE) + 1, MAX_LEVEL)

\* updateDistance taking the level of the distance passed even when it is lower.
UpdateDistanceFollowing(d, dist) ==
    [d |-> [distance |-> dist, currentLevel |-> LevelAt(dist)],
     levelUp |-> LevelAt(dist) > d.currentLevel]

\* updateDistance: the new state and whether onLevelUp was called.
UpdateDistance(d, dist) ==
    IF LevelAt(dist) > d.currentLevel
    THEN [d |-> [distance |-> dist, currentLevel |-> LevelAt(dist)], levelUp |-> TRUE]
    ELSE [d |-> [d EXCEPT !.distance = dist], levelUp |-> FALSE]

\* gameSpeedMultiplier = 1 + 0.3 * (level - 1) / 9, in thirtieths.
DifficultySpeedMultiplier(d) == 29 + d.currentLevel

\* spawnTimer >= getObstacleInterval(), with the interval 2.5 * (1 - 0.52 * (level - 1) / 9)
\* seconds: both sides times 9000.
SpawnDue(spawnTimer, d) == 3 * spawnTimer >= 22500 - 1300 * (d.currentLevel - 1)

\* getPowerUpChance() * deltaTime compared with a uniform draw from [0, 1): the
\* product, times 2,700,000, is (135 - 5 * (level - 1)) * adjusted.
PowerUpSpawnPossible(d, adjusted) == (135 - 5 * (d.currentLevel - 1)) * adjusted > 0
PowerUpSpawnCertain(d, adjusted) ==
    (135 - 5 * (d.currentLevel - 1)) * adjusted >= 2700000

(***************************************************************************)
(* RandomEventSystem                                                       *)
(***************************************************************************)
RandomEventTypes ==
    {"double_trouble", "famine", "feast", "chaos", "golden_rush", "speed_demon",
     "slow_motion", "mega_enemies", "tiny_gates", "jackpot"}

EventDuration(type) ==
    CASE type = "double_trouble" -> 150
      [] type = "famine" -> 100
      [] type = "feast" -> 100
      [] type = "chaos" -> 120
      [] type = "golden_rush" -> 80
      [] type = "speed_demon" -> 100
      [] type = "slow_motion" -> 80
      [] type = "mega_enemies" -> 120
      [] type = "tiny_gates" -> 150
      [] type = "jackpot" -> 50

MIN_EVENT_INTERVAL == 300
MAX_EVENT_INTERVAL == 600

NewRandomEvent(interval) ==
    [activeEvent |-> "none", timeRemaining |-> 0,
     timeSinceLastEvent |-> 0, nextEventTime |-> interval]

\* The idle branch of update() starts an event in this call.
EventDue(ev, deltaTime) ==
    ev.activeEvent = "none" /\ ev.timeSinceLastEvent + deltaTime >= ev.nextEventTime

\* The active branch of update() ends the event in this call.
EventEnds(ev, deltaTime) ==
    ev.activeEvent # "none" /\ ev.timeRemaining - deltaTime <= 0

\* update(deltaTime) ending an event only once its time has passed below 0.
RandomEventUpdateEndingLate(ev, deltaTime, pick, interval) ==
    IF ev.activeEvent # "none"
    THEN IF ev.timeRemaining - deltaTime < 0
         THEN [activeEvent |-> "none", timeRemaining |-> 0,
               timeSinceLastEvent |-> 0, nextEventTime |-> interval]
         ELSE [ev EXCEPT !.timeRemaining = @ - deltaTime]
    ELSE IF EventDue(ev, deltaTime)
         THEN [ev EXCEPT !.timeSinceLastEvent = @ + deltaTime,
                         !.activeEvent = pick,
                         !.timeRemaining = EventDuration(pick)]
         ELSE [ev EXCEPT !.timeSinceLastEvent = @ + deltaTime]

\* update(deltaTime); pick is the type selectRandomEvent() returns and interval the
\* value getRandomInterval() returns, each used only on the branch that draws it.
RandomEventUpdate(ev, deltaTime, pick, interval) ==
    IF ev.activeEvent # "none"
    THEN IF EventEnds(ev, deltaTime)
         THEN [activeEvent |-> "none", timeRemaining |-> 0,
               timeSinceLastEvent |-> 0, nextEventTime |-> interval]
         ELSE [ev EXCEPT !.timeRemaining = @ - deltaTime]
    ELSE IF EventDue(ev, deltaTime)
         THEN [ev EXCEPT !.timeSinceLastEvent = @ + deltaTime,
                         !.activeEvent = pick,
                         !.timeRemaining = EventDuration(pick)]
         ELSE [ev EXCEPT !.timeSinceLastEvent = @ + deltaTime]

\* destroy()
RandomEventDestroy(ev) == [ev EXCEPT !.activeEvent = "none"]

\* EVENTS in the order of its declaration, which is the order Object.entries walks;
\* rarity in hundredths.
EventTable ==
    << [type |-> "double_trouble", weight |-> 80], [type |-> "famine", weight |-> 70],
       [type |-> "feast", weight |-> 60], [type |-> "chaos", weight |-> 50],
       [type |-> "golden_rush", weight |-> 40], [type |-> "speed_demon", weight |-> 70],
       [type |-> "slow_motion", weight |-> 60], [type |-> "mega_enemies", weight |-> 50],
       [type |-> "tiny_gates", weight |-> 60], [type |-> "jackpot", weight |-> 10] >>

RECURSIVE TotalWeight(_, _)
\* reduce((sum, config) => sum + weight, 0) over the first n entries.
TotalWeight(table, n) ==
    IF n = 0 THEN 0 ELSE TotalWeight(table, n - 1) + table[n].weight

\* The picks k/100 at which the repeated subtraction of the source, done in doubles,
\* leaves a remainder above 0 where the decimal remainder is exactly 0: the doubles
\* of 2.1, 2.6, 3.0, 3.7 and 5.4 less the doubles of the rarities up to that sum.
EventResidues == {210, 260, 300, 370, 540}

RECURSIVE WalkComparingFirst(_, _, _, _)
\* The walk with the comparison made before the subtraction.
WalkComparingFirst(table, i, random, residue) ==
    IF i > Len(table) THEN 0
    ELSE IF random < 0 \/ (random = 0 /\ ~residue) THEN i
         ELSE WalkComparingFirst(table, i + 1, random - table[i].weight, residue)

RECURSIVE Walk(_, _, _, _)
\* for (const [type, config] of table) { random -= weight; if (random <= 0) return }
\* from entry i on; the index of the entry returned, 0 when the loop runs off the
\* table.  residue: the double remainder is above 0 when the decimal one is 0.
Walk(table, i, random, residue) ==
    IF i > Len(table) THEN 0
    ELSE IF random - table[i].weight < 0
            \/ (random - table[i].weight = 0 /\ ~residue) THEN i
         ELSE Walk(table, i + 1, random - table[i].weight, residue)

\* selectRandomEvent() with the pick Math.random() * totalWeight, in hundredths.
SelectRandomEvent(pick) ==
    IF Walk(EventTable, 1, pick, pick \in EventResidues) = 0 THEN "double_trouble"
    ELSE EventTable[Walk(EventTable, 1, pick, pick \in EventResidues)].type

(***************************************************************************)
(* EnemyMutationSystem.rollMutation                                        *)
(***************************************************************************)
mutationChance == 15

\* MUTATIONS without NORMAL, in the order of its declaration; spawnChance in
\* hundredths.
MutationTable ==
    << [type |-> "tank", weight |-> 25], [type |-> "speedster", weight |-> 25],
       [type |-> "regenerating", weight |-> 15], [type |-> "volatile", weight |-> 10],
       [type |-> "phantom", weight |-> 10], [type |-> "split", weight |-> 10],
       [type |-> "magnetic", weight |-> 5] >>

\* As EventResidues: the double of 0.65 less 0.25, 0.25 and 0.15.
MutationResidues == {65}

\* rollMutation() with its two draws, in hundredths: roll decides whether the enemy
\* mutates, pick is Math.random() * totalWeight.
RollMutation(roll, pick) ==
    IF roll >= mutationChance THEN "normal"
    ELSE IF Walk(MutationTable, 1, pick, pick \in MutationResidues) = 0 THEN "normal"
         ELSE MutationTable[Walk(MutationTable, 1, pick,
                                 pick \in MutationResidues)].type

(***************************************************************************)
(* NearMissSystem.  Times in tenths of a second; now is what                *)
(* performance.now() / 1000 returns when update() reads it.                 *)
(***************************************************************************)
streakTimeout == 30

NewNearMiss == [missStreak |-> 0, lastMissTime |-> 0, recentMisses |-> <<>>]

\* The tier checkNearMiss finds for a lateral distance, in tenths ("none": no near
\* miss).
NearMissTier(lateralDistance) ==
    IF lateralDistance <= 10 THEN "extreme"
    ELSE IF lateralDistance <= 20 THEN "very_close"
    ELSE IF lateralDistance <= 30 THEN "close"
    ELSE "none"

TierBonus(tier) ==
    CASE tier = "extreme" -> 15
      [] tier = "very_close" -> 8
      [] tier = "close" -> 3

\* The streak registerNearMiss continues or restarts.
NextStreak(n, timestamp) ==
    IF timestamp - n.lastMissTime <= streakTimeout THEN n.missStreak + 1 ELSE 1

\* floor(baseBonus * (1 + (missStreak - 1) * 0.2))
NearMissBonus(tier, streak) == (TierBonus(tier) * (streak + 4)) \div 5

\* registerNearMiss: the new state and the callbacks in the order of their calls.
RegisterNearMiss(n, tier, timestamp) ==
    [n |-> [missStreak |-> NextStreak(n, timestamp),
            lastMissTime |-> timestamp,
            recentMisses |->
                IF Len(n.recentMisses) + 1 > 10
                THEN Tail(Append(n.recentMisses,
                                 NearMissBonus(tier, NextStreak(n, timestamp))))
                ELSE Append(n.recentMisses,
                            NearMissBonus(tier, NextStreak(n, timestamp)))],
     fired |-> <<[callback |-> "onNearMiss", tier |-> tier,
                  bonus |-> NearMissBonus(tier, NextStreak(n, timestamp)),
                  timestamp |-> timestamp]>>
               \o (IF NextStreak(n, timestamp) >= 3 /\ NextStreak(n, timestamp) % 3 = 0
                   THEN <<[callback |-> "onStreakBonus",
                           streak |-> NextStreak(n, timestamp),
                           bonus |-> NextStreak(n, timestamp) * 10]>>
                   ELSE <<>>)]

\* checkNearMiss(enemyPosition, playerPosition, currentTime)
CheckNearMiss(n, lateralDistance, currentTime) ==
    IF NearMissTier(lateralDistance) = "none" THEN [n |-> n, fired |-> <<>>]
    ELSE RegisterNearMiss(n, NearMissTier(lateralDistance), currentTime)

\* update(_deltaTime)
NearMissUpdate(n, now) ==
    IF now - n.lastMissTime > streakTimeout THEN [n EXCEPT !.missStreak = 0] ELSE n

(***************************************************************************)
(* EnemyMutationSystem: the mutation of one enemy and its growth.           *)
(***************************************************************************)
NoMutation == [type |-> "none", spawnTime |-> 0]

\* The fields of a new EnemyMutationSystem besides activeMutations.
NewMutationSystem == [mutationChance |-> mutationChance]

\* setMutationChance(chance), in hundredths: Math.max(0, Math.min(1, chance)).
SetMutationChance(ms, chance) == [ms EXCEPT !.mutationChance = Max(0, Min(100, chance))]

\* createMutation(type): the mutation object, stamped with performance.now() / 1000.
CreateMutation(type, now) == [type |-> type, spawnTime |-> now]

\* createMutation calls onMutationSpawned.
MutationSpawned(type) == type # "normal"

\* registerMutation(enemyId, mutation) for the one enemy id of the model.
RegisterMutation(active, mutation) ==
    IF mutation.type # "normal" THEN mutation ELSE active

\* getRegenerationMultiplier(enemyId), in five-hundredths:
\* min(2.0, 1.0 + (timeSinceSpawn / 5) * 0.1).
GetRegenerationMultiplier(active, now) ==
    IF active.type = "regenerating" THEN Min(1000, 500 + (now - active.spawnTime))
    ELSE 500

\* A run of the two systems on a host: its clock, the systems, the mutation
\* rollMutation returned last, the callbacks emitted and the value returned last.
NewRun ==
    [clock |-> 0, nearMiss |-> NewNearMiss, active |-> NoMutation,
     rolled |-> NoMutation, emitted |-> <<>>, returned |-> 0]

(***************************************************************************)
(* CriticalHitSystem                                                       *)
(***************************************************************************)
NewCritical ==
    [totalCrits |-> 0, normal |-> 0, mega |-> 0, ultra |-> 0, luckMultiplier |-> 100]

\* The tiers tried from the most frequent to the rarest.
CritTierNormalFirst(cs, roll) ==
    IF roll * 100 < 1000 * cs.luckMultiplier THEN "normal"
    ELSE IF roll * 100 < 200 * cs.luckMultiplier THEN "mega"
    ELSE IF roll * 100 < 50 * cs.luckMultiplier THEN "ultra"
    ELSE "none"

\* The tier a roll selects; roll is in ten-thousandths, luckMultiplier in hundredths:
\* roll < 0.005 * luck, roll < 0.02 * luck, roll < 0.10 * luck.
CritTier(cs, roll) ==
    IF roll * 100 < 50 * cs.luckMultiplier THEN "ultra"
    ELSE IF roll * 100 < 200 * cs.luckMultiplier THEN "mega"
    ELSE IF roll * 100 < 1000 * cs.luckMultiplier THEN "normal"
    ELSE "none"

CritMultiplier(tier) ==
    CASE tier = "ultra" -> 10 [] tier = "mega" -> 5 [] tier = "normal" -> 2 [] OTHER -> 1

\* The end of rollCritical(baseValue) once the tier is chosen: the new state and the
\* value returned.
ApplyCritical(cs, baseValue, tier) ==
    IF tier = "none"
    THEN [cs |-> cs, value |-> baseValue]
    ELSE [cs |-> [cs EXCEPT !.totalCrits = @ + 1, ![tier] = @ + 1],
          value |-> baseValue * CritMultiplier(tier)]

\* rollCritical(baseValue) with Math.random() = roll.
RollCritical(cs, baseValue, roll) == ApplyCritical(cs, baseValue, CritTier(cs, roll))

\* setLuckMultiplier(multiplier), in hundredths.
SetLuckMultiplier(cs, multiplier) ==
    [cs EXCEPT !.luckMultiplier = Max(0, multiplier)]

(***************************************************************************)
(* AdaptiveDifficultySystem: the recorders the collision handlers call.    *)
(***************************************************************************)
NewAdaptive == [gatesCollected |-> 0, enemiesHit |-> 0]
RecordGateCollected(a) == [a EXCEPT !.gatesCollected = @ + 1]
RecordEnemyHit(a) == [a EXCEPT !.enemiesHit = @ + 1]

(***************************************************************************)
(* AdaptiveDifficultySystem: the evaluation.  gatesCollected and           *)
(* enemiesHit, which the collision handlers raise, are the record a above; *)
(* the record p holds the other fields of the object.  Scales:             *)
(*   averageCrowdSize                     hundredths                       *)
(*   performance scores                   1/1050000                        *)
(*   the four multipliers                 ten-millionths                   *)
(* With the recorder totals up to 8, crowd sizes that are multiples of 10  *)
(* and the numbers of calls of the leaf specification every division below *)
(* is exact.                                                               *)
(***************************************************************************)
historySize == 10
evaluationInterval == 150
ScoreOne == 1050000
MultiplierOne == 10000000

NewPerformance ==
    [gatesMissed |-> 0, enemiesAvoided |-> 0, averageCrowdSize |-> 0, deaths |-> 0,
     performanceHistory |-> <<>>, timeSinceEvaluation |-> 0,
     obstacleFrequencyMultiplier |-> MultiplierOne,
     enemyStrengthMultiplier |-> MultiplierOne,
     rewardMultiplier |-> MultiplierOne,
     powerUpFrequencyMultiplier |-> MultiplierOne,
     currentTrend |-> "stable"]

RecordGateMissed(p) == [p EXCEPT !.gatesMissed = @ + 1]
RecordEnemyAvoided(p) == [p EXCEPT !.enemiesAvoided = @ + 1]
RecordDeath(p) == [p EXCEPT !.deaths = @ + 1]

\* updateCrowdSize(size)
AdaptiveUpdateCrowdSize(p, size) ==
    IF p.averageCrowdSize = 0
    THEN [p EXCEPT !.averageCrowdSize = size * 100]
    ELSE [p EXCEPT !.averageCrowdSize = (@ * 9) \div 10 + size * 10]

\* calculatePerformanceScore(): gateRate * 0.4 + avoidanceRate * 0.4 +
\* crowdFactor * 0.2, clamped to [0, 1].
CalculatePerformanceScore(a, p) ==
    IF a.gatesCollected + p.gatesMissed = 0 /\ a.enemiesHit + p.enemiesAvoided = 0
    THEN ScoreOne \div 2
    ELSE Max(0, Min(ScoreOne,
           (IF a.gatesCollected + p.gatesMissed > 0
            THEN (420000 * a.gatesCollected) \div (a.gatesCollected + p.gatesMissed)
            ELSE 210000)
           + (IF a.enemiesHit + p.enemiesAvoided > 0
              THEN (420000 * p.enemiesAvoided) \div (a.enemiesHit + p.enemiesAvoided)
              ELSE 210000)
           + 21 * Min(p.averageCrowdSize, 10000)))

\* lerp(a, 1.0, 0.1)
Lerp(x) == x + (MultiplierOne - x) \div 10

\* adjustDifficulty(trend) with the multipliers left free to leave their ranges.
AdjustDifficultyUnclamped(p, trend) ==
    CASE trend = "increasing" ->
           [p EXCEPT !.obstacleFrequencyMultiplier = @ + 1000000,
                     !.enemyStrengthMultiplier = @ + 1000000,
                     !.rewardMultiplier = @ - 500000,
                     !.powerUpFrequencyMultiplier = @ - 500000]
      [] trend = "decreasing" ->
           [p EXCEPT !.obstacleFrequencyMultiplier = @ - 1000000,
                     !.enemyStrengthMultiplier = @ - 1000000,
                     !.rewardMultiplier = @ + 1000000,
                     !.powerUpFrequencyMultiplier = @ + 1000000]
      [] trend = "stable" ->
           [p EXCEPT !.obstacleFrequencyMultiplier = Lerp(@),
                     !.enemyStrengthMultiplier = Lerp(@),
                     !.rewardMultiplier = Lerp(@),
                     !.powerUpFrequencyMultiplier = Lerp(@)]

\* adjustDifficulty(trend)
AdjustDifficulty(p, trend) ==
    CASE trend = "increasing" ->
           [p EXCEPT !.obstacleFrequencyMultiplier = Min(13000000, @ + 1000000),
                     !.enemyStrengthMultiplier = Min(13000000, @ + 1000000),
                     !.rewardMultiplier = Max(9000000, @ - 500000),
                     !.powerUpFrequencyMultiplier = Max(8000000, @ - 500000)]
      [] trend = "decreasing" ->
           [p EXCEPT !.obstacleFrequencyMultiplier = Max(7000000, @ - 1000000),
                     !.enemyStrengthMultiplier = Max(7000000, @ - 1000000),
                     !.rewardMultiplier = Min(13000000, @ + 1000000),
                     !.powerUpFrequencyMultiplier = Min(14000000, @ + 1000000)]
      [] trend = "stable" ->
           [p EXCEPT !.obstacleFrequencyMultiplier = Lerp(@),
                     !.enemyStrengthMultiplier = Lerp(@),
                     !.rewardMultiplier = Lerp(@),
                     !.powerUpFrequencyMultiplier = Lerp(@)]

RECURSIVE SumOf(_, _)
\* reduce((a, b) => a + b, 0) over the first n scores.
SumOf(history, n) == IF n = 0 THEN 0 ELSE SumOf(history, n - 1) + history[n]

\* The histories whose average is 0.65 in exact arithmetic and more than 0.65 in
\* doubles: 0.6000000000000001 three times and 0.8 average to 0.6500000000000001.
RoundedUpHistories == {<<630000, 630000, 630000, 840000>>}

\* The trend judged from the newest score alone.
ClassifiedTrendOfLast(history) ==
    IF history[Len(history)] * 20 > 13 * ScoreOne THEN "increasing"
    ELSE IF history[Len(history)] * 20 < 7 * ScoreOne THEN "decreasing"
         ELSE "stable"

\* The trend of a history: avgScore > 0.65, avgScore < 0.35, or neither.
ClassifiedTrend(history) ==
    IF \/ SumOf(history, Len(history)) * 20 > 13 * Len(history) * ScoreOne
       \/ history \in RoundedUpHistories
    THEN "increasing"
    ELSE IF SumOf(history, Len(history)) * 20 < 7 * Len(history) * ScoreOne
         THEN "decreasing"
         ELSE "stable"

\* The history after push(score) and, above historySize entries, shift().
Pushed(history, score) ==
    IF Len(history) + 1 > historySize THEN Tail(Append(history, score))
    ELSE Append(history, score)

\* evaluatePerformance() judging from the first evaluation on.
EvaluatePerformanceAtOnce(a, p) ==
    LET recorded == [p EXCEPT !.performanceHistory =
                                 Pushed(@, CalculatePerformanceScore(a, p))]
        newTrend == ClassifiedTrend(recorded.performanceHistory)
    IN  IF newTrend # recorded.currentTrend
        THEN [p |-> AdjustDifficulty([recorded EXCEPT !.currentTrend = newTrend],
                                     newTrend),
              fired |-> newTrend]
        ELSE [p |-> recorded, fired |-> "none"]

\* evaluatePerformance(): the new record and the trend passed to
\* onDifficultyAdjusted ("none": no call).
EvaluatePerformance(a, p) ==
    LET recorded == [p EXCEPT !.performanceHistory =
                                 Pushed(@, CalculatePerformanceScore(a, p))]
        newTrend == ClassifiedTrend(recorded.performanceHistory)
    IN  IF Len(recorded.performanceHistory) < 3
        THEN [p |-> recorded, fired |-> "none"]
        ELSE IF newTrend # recorded.currentTrend
             THEN [p |-> AdjustDifficulty([recorded EXCEPT !.currentTrend = newTrend],
                                          newTrend),
                   fired |-> newTrend]
             ELSE [p |-> recorded, fired |-> "none"]

\* update(deltaTime)
AdaptiveUpdate(a, p, deltaTime) ==
    IF p.timeSinceEvaluation + deltaTime >= evaluationInterval
    THEN [p |-> [EvaluatePerformance(a, p).p EXCEPT !.timeSinceEvaluation = 0],
          fired |-> EvaluatePerformance(a, p).fired, evaluated |-> TRUE]
    ELSE [p |-> [p EXCEPT !.timeSinceEvaluation = @ + deltaTime],
          fired |-> "none", evaluated |-> FALSE]

(***************************************************************************)
(* Player                                                                  *)
(***************************************************************************)
NewPlayer ==
    [crowdCount |-> INITIAL_CROWD_COUNT, currentLane |-> 0, targetLane |-> 0,
     x |-> LaneX(0), laneTransitionProgress |-> LANE_SWITCH_DURATION,
     laneTransitionStartX |-> LaneX(0), laneTransitionTargetX |-> LaneX(0)]

AddToCrowd(p, count) == [p EXCEPT !.crowdCount = @ + count]
RemoveFromCrowd(p, count) == [p EXCEPT !.crowdCount = Max(0, @ - count)]

SwitchLane(p, direction) ==
    IF direction = 0 THEN p
    ELSE IF p.laneTransitionProgress < LANE_SWITCH_DURATION THEN p
    ELSE IF p.currentLane + direction < -1 \/ p.currentLane + direction > 1 THEN p
    ELSE [p EXCEPT !.targetLane = p.currentLane + direction,
                   !.laneTransitionProgress = 0,
                   !.laneTransitionStartX = p.x,
                   !.laneTransitionTargetX = LaneX(p.currentLane + direction)]

\* start + (target - start) * easeOutCubic(progress / duration), with
\* easeOutCubic(t) = 1 - (1 - t)^3; start and target are lane positions.
EasedX(startX, targetX, progress) ==
    LET q == LANE_SWITCH_DURATION - progress
        lanes == (targetX - startX) \div LaneX(1)
    IN  startX + (lanes * (729000000 - q * q * q)) \div 486000

\* The transition step of update() once the new progress is known.
Advance(p, progress) ==
    [p EXCEPT !.laneTransitionProgress = progress,
              !.x = EasedX(p.laneTransitionStartX, p.laneTransitionTargetX, progress),
              !.currentLane = IF progress >= LANE_SWITCH_DURATION
                              THEN p.targetLane ELSE @]

PlayerUpdate(p, adjusted) ==
    IF p.laneTransitionProgress < LANE_SWITCH_DURATION
    THEN Advance(p, Min(LANE_SWITCH_DURATION, p.laneTransitionProgress + adjusted))
    ELSE p

(***************************************************************************)
(* Obstacle, Gate, EnemyCrowd, PowerUp (entities)                          *)
(***************************************************************************)
NewGate(lane, value, offset) ==
    [kind |-> "gate", value |-> value, x |-> LaneX(lane),
     z |-> OBSTACLE_SPAWN_DISTANCE + offset, hasCollided |-> FALSE,
     disposed |-> FALSE]

NewEnemyCrowd(lane, count) ==
    [kind |-> "enemy", value |-> count, x |-> LaneX(lane),
     z |-> OBSTACLE_SPAWN_DISTANCE, hasCollided |-> FALSE, disposed |-> FALSE]

NewFieldPowerUp(lane, type) ==
    [type |-> type, x |-> LaneX(lane), z |-> POWER_UP_SPAWN_Z,
     hasCollided |-> FALSE, shouldDestroy |-> FALSE]

\* Obstacle.update: z -= OBSTACLE_SPEED * deltaTime.
MoveObstacle(o, adjusted) == [o EXCEPT !.z = @ - adjusted]

ObstacleRadius(o) ==
    IF o.kind = "gate" THEN GATE_COLLISION_RADIUS ELSE COLLISION_RADIUS

\* The distance test of Obstacle.checkCollision: sqrt(dx^2 + dz^2) < radius + playerRadius.
Touches(x, z, radius, p) ==
    LET dx == x - p.x
        dz == z - PLAYER_Z_POSITION
        reach == radius + COLLISION_RADIUS
    IN  dx * dx + dz * dz < reach * reach

\* Obstacle.checkCollision returns true (and then sets hasCollided).
CheckCollision(o, p) == ~o.hasCollided /\ Touches(o.x, o.z, ObstacleRadius(o), p)
CheckPowerUpCollision(pu, p) ==
    ~pu.hasCollided /\ Touches(pu.x, pu.z, POWER_UP_COLLISION_RADIUS, p)

ShouldRemove(o) == o.z < OBSTACLE_DESPAWN_DISTANCE
PowerUpShouldRemove(pu) == pu.z < OBSTACLE_DESPAWN_DISTANCE \/ pu.shouldDestroy

\* Gate.onCollision (ADD gate) and EnemyCrowd.onCollision.
OnCollision(o, p) ==
    IF o.kind = "gate" THEN AddToCrowd(p, o.value) ELSE RemoveFromCrowd(p, o.value)

(***************************************************************************)
(* ObstacleManager                                                         *)
(***************************************************************************)
\* spawnRandomObstacle: choice.kind is the outcome of rand < 0.7, choice.value the gate
\* value or enemy count drawn, choice.trap the value of the trap gate (0: none).
SpawnRandomObstacle(obstacles, lane, choice) ==
    IF choice.kind = "gate"
    THEN Append(obstacles, NewGate(lane, choice.value, 0))
    ELSE IF choice.trap = 0
         THEN Append(obstacles, NewEnemyCrowd(lane, choice.value))
         ELSE Append(Append(obstacles, NewEnemyCrowd(lane, choice.value)),
                     NewGate(lane, choice.trap, TRAP_GATE_OFFSET))

RemoveAt(seq, i) == SubSeq(seq, 1, i - 1) \o SubSeq(seq, i + 1, Len(seq))

\* The end of an iteration of the loop of ObstacleManager.update: obstacle o, once
\* moved and tested, is removed if it has passed and kept otherwise.
Settle(obstacles, i, o) ==
    IF ShouldRemove(o) THEN RemoveAt(obstacles, i) ELSE [obstacles EXCEPT ![i] = o]

\* The record of a call of onCollision made by the loop.
Contact(o, crowdBefore, crowdAfter) ==
    [kind |-> o.kind, value |-> o.value, before |-> crowdBefore, after |-> crowdAfter]

\* The loop of ObstacleManager.update over obstacles[i], i descending: move, test the
\* collision, call onCollision, remove what has passed.  contacts lists the obstacles
\* whose onCollision the loop called, with the crowd before and after the call.
RECURSIVE ObstacleLoop(_, _, _, _, _)
RECURSIVE Visit(_, _, _, _, _, _)
ObstacleLoop(obstacles, p, adjusted, i, contacts) ==
    IF i = 0
    THEN [obstacles |-> obstacles, player |-> p, contacts |-> contacts]
    ELSE Visit(obstacles, p, adjusted, i, contacts, MoveObstacle(obstacles[i], adjusted))

\* One iteration, on the moved obstacle.
Visit(obstacles, p, adjusted, i, contacts, moved) ==
    IF CheckCollision(moved, p)
    THEN ObstacleLoop(Settle(obstacles, i, [moved EXCEPT !.hasCollided = TRUE]),
                      OnCollision(moved, p), adjusted, i - 1,
                      Append(contacts,
                             Contact(moved, p.crowdCount,
                                     OnCollision(moved, p).crowdCount)))
    ELSE ObstacleLoop(Settle(obstacles, i, moved), p, adjusted, i - 1, contacts)

SpawnNow(spawnTimer, adjusted, d, obstacles) ==
    SpawnDue(spawnTimer + adjusted, d) /\ Len(obstacles) < MAX_OBSTACLES_ON_SCREEN

\* ObstacleManager.update(adjustedDelta, player) with the interval set from the
\* difficulty system just before: the obstacles, the player, the contacts and the
\* spawn timer it leaves.
ObstacleManagerUpdate(obstacles, spawnTimer, p, adjusted, d, lane, choice) ==
    IF SpawnNow(spawnTimer, adjusted, d, obstacles)
    THEN ObstacleLoop(SpawnRandomObstacle(obstacles, lane, choice), p, adjusted,
                      Len(SpawnRandomObstacle(obstacles, lane, choice)), <<>>)
         @@ [spawnTimer |-> 0]
    ELSE ObstacleLoop(obstacles, p, adjusted, Len(obstacles), <<>>)
         @@ [spawnTimer |-> spawnTimer + adjusted]

(***************************************************************************)
(* EnhancedGameManager: the collision handlers.  A world w is the record   *)
(* of the orchestrator's fields and of the objects it owns.                *)
(***************************************************************************)
\* The branches with the shield tested before the ghost.
EnemyOutcomeShieldFirst(pm) ==
    IF HasShield(pm) THEN "shield"
    ELSE IF HasGhost(pm) THEN "ghost"
    ELSE IF HasVampire(pm) THEN "vampire"
    ELSE "damage"

\* The branch of checkEnemyCollisions taken for one enemy.
EnemyOutcome(pm) ==
    IF HasGhost(pm) THEN "ghost"
    ELSE IF HasShield(pm) THEN "shield"
    ELSE IF HasVampire(pm) THEN "vampire"
    ELSE "damage"

\* The branch taken for obstacle i, in a world where checkCollision has marked it.
EnemyBranch(w, i, outcome, enemyCount) ==
    CASE outcome = "ghost" -> w
      [] outcome = "shield" ->
           [w EXCEPT !.powerUpManager = ConsumeShield(@),
                     !.obstacles[i].disposed = TRUE]
      [] outcome = "vampire" ->
           [w EXCEPT !.player = AddToCrowd(@, VampireSteal(w.obstacles[i].value))]
      [] OTHER ->
           [w EXCEPT !.obstacles[i].value = enemyCount,
                     !.player = RemoveFromCrowd(@, enemyCount),
                     !.comboSystem = ResetCombo(@),
                     !.momentumSystem = OnEnemyHit(@),
                     !.adaptiveDifficultySystem = RecordEnemyHit(@)]

\* The body of checkEnemyCollisions for obstacle i, an enemy whose checkCollision
\* returned true.
HandleEnemy(w, i) ==
    EnemyBranch([w EXCEPT !.obstacles[i].hasCollided = TRUE,
                          !.handled = Append(@, [kind |-> "enemy",
                                                 outcome |-> EnemyOutcome(w.powerUpManager),
                                                 raw |-> w.obstacles[i].value])],
                i, EnemyOutcome(w.powerUpManager),
                ComebackEnemyCount(w.comebackSystem, w.obstacles[i].value))

RECURSIVE EnemyLoop(_, _)
EnemyLoop(w, i) ==
    IF i > Len(w.obstacles) THEN w
    ELSE EnemyLoop(IF w.obstacles[i].kind = "enemy"
                      /\ CheckCollision(w.obstacles[i], w.player)
                   THEN HandleEnemy(w, i) ELSE w,
                   i + 1)

CheckEnemyCollisions(w) == EnemyLoop(w, 1)

\* floor(gateValue * FRENZY_MULTIPLIER) when the frenzy buff is active.
FrenzyStage(pm, gateValue) ==
    IF HasFrenzy(pm) THEN FrenzyValue(gateValue) ELSE gateValue

\* The stages with frenzy applied before the comeback multiplier.
ComposedGateValueFrenzyFirst(m, cb, pm, cs, value, roll) ==
    RollCritical(cs,
                 ComebackGateValue(cb, FrenzyStage(pm, MomentumGateValue(m, value))),
                 roll)

\* The value checkGateCollisions gives the gate before calling its onCollision:
\* momentum, comeback, frenzy, critical roll, a floor after each; roll is the draw
\* of rollCritical.  The result is that of rollCritical (new crit state, value).
ComposedGateValue(m, cb, pm, cs, value, roll) ==
    RollCritical(cs,
                 FrenzyStage(pm, ComebackGateValue(cb, MomentumGateValue(m, value))),
                 roll)

\* The rest of the body once the value is composed: onCollision with that value,
\* then the combo, momentum and adaptive trackers.
Reward(w, i, crit) ==
    [w EXCEPT !.obstacles[i].hasCollided = TRUE,
              !.criticalHitSystem = crit.cs,
              !.player = AddToCrowd(@, crit.value),
              !.comboSystem = AddToCombo(@),
              !.momentumSystem = OnGateCollected(@),
              !.adaptiveDifficultySystem = RecordGateCollected(@),
              !.handled = Append(@, [kind |-> "gate", outcome |-> "reward",
                                     raw |-> w.obstacles[i].value])]

\* The body of checkGateCollisions for obstacle i, a gate whose checkCollision
\* returned true.
HandleGate(w, i, roll) ==
    Reward(w, i, ComposedGateValue(w.momentumSystem, w.comebackSystem,
                                   w.powerUpManager, w.criticalHitSystem,
                                   w.obstacles[i].value, roll))

RECURSIVE GateLoop(_, _, _)
GateLoop(w, i, roll) ==
    IF i > Len(w.obstacles) THEN w
    ELSE GateLoop(IF w.obstacles[i].kind = "gate"
                     /\ CheckCollision(w.obstacles[i], w.player)
                  THEN HandleGate(w, i, roll) ELSE w,
                  i + 1, roll)

CheckGateCollisions(w, roll) == GateLoop(w, 1, roll)

(***************************************************************************)
(* EnhancedGameManager: power-ups on the field and the system callbacks.   *)
(***************************************************************************)
SpawnPowerUp(w, lane, type) ==
    [w EXCEPT !.activePowerUps = Append(@, NewFieldPowerUp(lane, type))]

RECURSIVE FieldLoop(_, _, _)
FieldLoop(powerUps, adjusted, i) ==
    IF i = 0 THEN powerUps
    ELSE FieldLoop(IF PowerUpShouldRemove(MoveObstacle(powerUps[i], adjusted))
                   THEN RemoveAt(powerUps, i)
                   ELSE [powerUps EXCEPT ![i] = MoveObstacle(@, adjusted)],
                   adjusted, i - 1)

\* updatePowerUps; spawn is the outcome of Math.random() < chance * deltaTime.
UpdatePowerUps(w, adjusted, spawn, lane, type) ==
    IF spawn
    THEN [w EXCEPT !.activePowerUps =
                       FieldLoop(Append(@, NewFieldPowerUp(lane, type)), adjusted,
                                 Len(@) + 1)]
    ELSE [w EXCEPT !.activePowerUps = FieldLoop(@, adjusted, Len(@))]

\* The body of checkPowerUpCollisions for power-up i, whose checkCollision returned true.
PickUp(w, i) ==
    [w EXCEPT !.activePowerUps[i].hasCollided = TRUE,
              !.activePowerUps[i].shouldDestroy = TRUE,
              !.powerUpManager =
                  ActivatePowerUp(@, w.activePowerUps[i].type,
                                  PowerUpDuration(w.activePowerUps[i].type))]

RECURSIVE PickupLoop(_, _)
PickupLoop(w, i) ==
    IF i > Len(w.activePowerUps) THEN w
    ELSE PickupLoop(IF CheckPowerUpCollision(w.activePowerUps[i], w.player)
                    THEN PickUp(w, i) ELSE w,
                    i + 1)

CheckPowerUpCollisions(w) == PickupLoop(w, 1)

\* A mutating method that a callback handler calls: the handler runs inside the
\* method of the subsystem that emits the callback, which has not returned yet.
Nested(emitter, handler, method) ==
    [emitter |-> emitter, handler |-> handler, method |-> method]

OnAutoShield(w) ==
    [w EXCEPT !.powerUpManager = ActivatePowerUp(@, "shield", 100),
              !.reentered = @ \cup {Nested("momentumSystem.update", "onAutoShield",
                                           "powerUpManager.activatePowerUp")}]

\* rain is the sequence of the three (lane, type) draws of spawnPowerUp.
OnComebackTriggered(w, type, rain) ==
    IF type = "shield_grant"
    THEN [w EXCEPT !.powerUpManager = ActivatePowerUp(@, "shield", 80),
                   !.reentered = @ \cup {Nested("comebackSystem.updateCrowdSize",
                                                "onComebackTriggered",
                                                "powerUpManager.activatePowerUp")}]
    ELSE IF type = "powerup_rain"
    THEN SpawnPowerUp(SpawnPowerUp(SpawnPowerUp(w, rain[1].lane, rain[1].type),
                                   rain[2].lane, rain[2].type),
                      rain[3].lane, rain[3].type)
    ELSE w

OnSecondChanceUsed(w) ==
    [w EXCEPT !.player = AddToCrowd(@, 20),
              !.powerUpManager = ActivatePowerUp(@, "shield", 50),
              !.reentered = @ \cup {Nested("comebackSystem.checkSecondChance",
                                           "onSecondChanceUsed", "player.addToCrowd"),
                                    Nested("comebackSystem.checkSecondChance",
                                           "onSecondChanceUsed",
                                           "powerUpManager.activatePowerUp")}]

(***************************************************************************)
(* EnhancedGameManager.update(deltaTime)                                   *)
(***************************************************************************)
\* adjustedDelta = deltaTime * manualSpeedMultiplier * difficultySpeed * powerUpSpeed.
Adjusted(deltaTime, manual, d, pm) ==
    deltaTime * manual * DifficultySpeedMultiplier(d) * PowerUpSpeedMultiplier(pm)

\* What a tick's observations record of the modifier state.
Snapshot(w) ==
    [crowdCount |-> w.player.crowdCount, distance |-> w.distance,
     difficultySystem |-> w.difficultySystem, powerUpManager |-> w.powerUpManager,
     comboSystem |-> w.comboSystem, momentumSystem |-> w.momentumSystem,
     comebackSystem |-> w.comebackSystem,
     adaptiveDifficultySystem |-> w.adaptiveDifficultySystem,
     criticalHitSystem |-> w.criticalHitSystem]

\* checkGateCollisions and checkEnemyCollisions on the world the obstacle manager
\* (result om) leaves.
Collide(w, om, roll) ==
    CheckEnemyCollisions(
        CheckGateCollisions([w EXCEPT !.player = om.player,
                                      !.obstacles = om.obstacles,
                                      !.spawnTimer = om.spawnTimer,
                                      !.contacts = om.contacts],
                            roll))

ObserveCollisions(w) == [w EXCEPT !.afterCollisions = Snapshot(w)]

\* Input, player.update, obstacleManager.update, checkGateCollisions,
\* checkEnemyCollisions.
CollisionPhase(w, adjusted, r) ==
    ObserveCollisions(
        Collide(w,
                ObstacleManagerUpdate(
                    w.obstacles, w.spawnTimer,
                    PlayerUpdate(SwitchLane(w.player, r.inputDirection), adjusted),
                    adjusted, w.difficultySystem, r.lane, r.choice),
                r.roll))

\* updatePowerUps, checkPowerUpCollisions.
FieldPhase(w, adjusted, r) ==
    CheckPowerUpCollisions(
        UpdatePowerUps(w, adjusted, r.spawnField, r.fieldLane, r.fieldType))

\* powerUpManager.update, comboSystem.update, randomEventSystem.update.
TimerUpdates(w, deltaTime, r) ==
    [w EXCEPT !.powerUpManager = PowerUpManagerUpdate(@, deltaTime),
              !.comboSystem = ComboUpdate(@, deltaTime),
              !.randomEventSystem = RandomEventUpdate(@, deltaTime, r.pick, r.interval)]

\* The world after momentumSystem.update returned mu.
AfterMomentum(w, mu) ==
    IF mu.autoShield THEN OnAutoShield([w EXCEPT !.momentumSystem = mu.m])
    ELSE [w EXCEPT !.momentumSystem = mu.m]

\* The world after comebackSystem.updateCrowdSize returned cu.
AfterComeback(w, cu, rain) ==
    OnComebackTriggered([w EXCEPT !.comebackSystem = cu.cb,
                                  !.triggered = cu.triggered],
                        cu.triggered, rain)

\* momentumSystem.update with its onAutoShield callback.
MomentumStep(w, deltaTime) ==
    AfterMomentum(w, MomentumUpdate(w.momentumSystem, deltaTime))

\* comebackSystem.update and updateCrowdSize with the onComebackTriggered callback.
ComebackStep(w, deltaTime, r) ==
    AfterComeback(w,
                  UpdateCrowdSize(ComebackUpdate(w.comebackSystem, deltaTime),
                                  w.player.crowdCount, r.coin),
                  r.rain)

\* "Update all systems": the update(deltaTime) of every leaf, in the order of the code,
\* with the callbacks the leaves fire from inside their updates.
LeafUpdates(w, deltaTime, r) ==
    ComebackStep(MomentumStep(TimerUpdates(w, deltaTime, r), deltaTime), deltaTime, r)

\* The regeneration buff: floor(REGEN_RATE_PER_SECOND * deltaTime).
Regeneration(w, deltaTime) ==
    IF HasRegen(w.powerUpManager) /\ (REGEN_RATE_PER_SECOND * deltaTime) \div 10 > 0
    THEN [w EXCEPT !.player =
                       AddToCrowd(@, (REGEN_RATE_PER_SECOND * deltaTime) \div 10)]
    ELSE w

\* distance += adjustedDelta * 10; difficultySystem.updateDistance(distance).
Progress(w, adjusted) ==
    [w EXCEPT !.distance = @ + adjusted,
              !.difficultySystem = UpdateDistance(@, w.distance + adjusted).d]

\* The world after checkSecondChance returned sc.
AfterSecondChance(w, sc) ==
    IF sc.result
    THEN OnSecondChanceUsed([w EXCEPT !.comebackSystem = sc.cb, !.overCheck = "saved"])
    ELSE [w EXCEPT !.gameState = "GAME_OVER", !.overCheck = "over"]

\* The game over check that ends update().
GameOverCheck(w) ==
    IF w.player.crowdCount <= 0
    THEN AfterSecondChance(w, CheckSecondChance(w.comebackSystem, w.player.crowdCount))
    ELSE w

\* The observations taken when update() is entered.
Enter(w, deltaTime) ==
    [w EXCEPT !.ran = TRUE, !.deltaTime = deltaTime,
              !.stateAtEntry = w.gameState,
              !.entry = Snapshot(w)]

\* update() with adjustedDelta computed.
Advanced(w, deltaTime, adjusted, r) ==
    GameOverCheck(
        Progress(
            Regeneration(
                LeafUpdates(FieldPhase(CollisionPhase(w, adjusted, r), adjusted, r),
                            deltaTime, r),
                deltaTime),
            adjusted))

\* update() reading the buff speed multiplier after powerUpManager.update.
UpdateReadingLate(w, deltaTime, r) ==
    Advanced(Enter(w, deltaTime), deltaTime,
             Adjusted(deltaTime, w.manualSpeedMultiplier, w.difficultySystem,
                      PowerUpManagerUpdate(w.powerUpManager, deltaTime)),
             r)

Update(w, deltaTime, r) ==
    Advanced(Enter(w, deltaTime), deltaTime,
             Adjusted(deltaTime, w.manualSpeedMultiplier, w.difficultySystem,
                      w.powerUpManager),
             r)

(***************************************************************************)
(* ObstaclePatternSystem.  Delays, durations and timers in tenths of a     *)
(* second.  The orchestrator constructs it with logging callbacks only.    *)
(***************************************************************************)
patternInterval == 200

\* enum PatternType
PatternType == {"zigzag", "tunnel", "wall", "choice", "wave", "gauntlet", "random"}

\* The delays of the instructions, in the order the create...() method lists them.
PatternDelays(type) ==
    CASE type = "zigzag"   -> <<0, 0, 15, 15, 30, 30>>
      [] type = "tunnel"   -> <<0, 0, 5, 20, 20, 25, 40, 40>>
      [] type = "wall"     -> <<0, 0, 0, 20, 20, 20>>
      [] type = "choice"   -> <<0, 10, 0, 10, 0, 10>>
      [] type = "wave"     -> <<0, 8, 16, 30, 38, 46, 60, 68, 76>>
      [] type = "gauntlet" -> <<0, 5, 10, 15, 20, 25, 30, 35, 40>>

\* Every pattern 2 s long: shorter than the later delays of each of them.
PatternDurationShort(type) == 20

PatternDuration(type) ==
    CASE type = "zigzag"   -> 80
      [] type = "tunnel"   -> 60
      [] type = "wall"     -> 50
      [] type = "choice"   -> 70
      [] type = "wave"     -> 90
      [] type = "gauntlet" -> 100

NewPatternSystem ==
    [activePattern |-> "none", patternTimer |-> 0, timeSincePattern |-> 0,
     instructionQueue |-> <<>>, lastPatternType |-> "none"]

\* The cooldown the create...() method declares, in tenths of a second.
PatternCooldown(type) ==
    CASE type = "zigzag"   -> 300
      [] type = "tunnel"   -> 250
      [] type = "wall"     -> 350
      [] type = "choice"   -> 300
      [] type = "wave"     -> 280
      [] type = "gauntlet" -> 320

\* startRandomPattern() drawing from every type but RANDOM.
AvailablePatternsAll(ps) == {t \in PatternType : t # "random"}

\* The types startRandomPattern() draws from.
AvailablePatterns(ps) ==
    {t \in PatternType : t # "random" /\ t # ps.lastPatternType}

\* activatePattern(pattern) keeping no record of the type it starts.
ActivatePatternRepeating(ps, type) ==
    [ps EXCEPT !.activePattern = type,
               !.patternTimer = PatternDuration(type),
               !.instructionQueue =
                   [i \in 1..Len(PatternDelays(type)) |->
                      [instruction |-> i, delay |-> PatternDelays(type)[i],
                       timeLeft |-> PatternDelays(type)[i]]]]

\* activatePattern(pattern)
ActivatePattern(ps, type) ==
    [ps EXCEPT !.activePattern = type,
               !.patternTimer = PatternDuration(type),
               !.lastPatternType = type,
               !.instructionQueue =
                   [i \in 1..Len(PatternDelays(type)) |->
                      [instruction |-> i, delay |-> PatternDelays(type)[i],
                       timeLeft |-> PatternDelays(type)[i]]]]

\* endPattern()
EndPattern(ps) ==
    [ps EXCEPT !.activePattern = "none", !.instructionQueue = <<>>,
               !.timeSincePattern = 0]

InstructionDue(e) == e.timeLeft <= 0
InstructionWaiting(e) == e.timeLeft > 0

ReverseSeq(s) == [i \in 1..Len(s) |-> s[Len(s) + 1 - i]]

\* update(deltaTime); type is the pattern startRandomPattern() draws, used only on
\* the branch that starts one.  spawned lists the instructions handed to
\* onSpawnRequest in the order of the calls: the loop walks the queue from its last
\* element to its first.
PatternSystemUpdate(ps, deltaTime, type) ==
    IF ps.activePattern # "none"
    THEN LET queue == [i \in 1..Len(ps.instructionQueue) |->
                         [ps.instructionQueue[i] EXCEPT !.timeLeft = @ - deltaTime]]
             counted == [ps EXCEPT !.patternTimer = @ - deltaTime,
                                   !.instructionQueue =
                                       SelectSeq(queue, InstructionWaiting)]
         IN  [ps |-> IF counted.patternTimer <= 0 THEN EndPattern(counted)
                     ELSE counted,
              spawned |-> ReverseSeq(SelectSeq(queue, InstructionDue)),
              started |-> "none",
              ended |-> IF counted.patternTimer <= 0 THEN ps.activePattern
                        ELSE "none"]
    ELSE LET idle == [ps EXCEPT !.timeSincePattern = @ + deltaTime]
         IN  IF idle.timeSincePattern >= patternInterval
             THEN [ps |-> ActivatePattern(idle, type), spawned |-> <<>>,
                   started |-> type, ended |-> "none"]
             ELSE [ps |-> idle, spawned |-> <<>>, started |-> "none",
                   ended |-> "none"]

(***************************************************************************)
(* LanePersonalitySystem.  Durations and timers in tenths of a second;     *)
(* a lane without an entry in activePersonalities is held as "normal".     *)
(***************************************************************************)
assignmentInterval == 250

Lanes == {-1, 0, 1}

\* The values of LanePersonality that assignRandomPersonality() keeps.
LanePersonalities ==
    {"blessed", "cursed", "fortune", "danger", "lucky", "chaotic", "empty"}

\* PERSONALITIES[p]; the multipliers in tenths.
PersonalityConfig(p) ==
    CASE p = "normal"  -> [gateSpawnMultiplier |-> 10, enemySpawnMultiplier |-> 10,
                           gateValueMultiplier |-> 10, enemyStrengthMultiplier |-> 10,
                           duration |-> 0]
      [] p = "blessed" -> [gateSpawnMultiplier |-> 18, enemySpawnMultiplier |-> 3,
                           gateValueMultiplier |-> 10, enemyStrengthMultiplier |-> 10,
                           duration |-> 120]
      [] p = "cursed"  -> [gateSpawnMultiplier |-> 3, enemySpawnMultiplier |-> 18,
                           gateValueMultiplier |-> 10, enemyStrengthMultiplier |-> 10,
                           duration |-> 120]
      [] p = "fortune" -> [gateSpawnMultiplier |-> 10, enemySpawnMultiplier |-> 10,
                           gateValueMultiplier |-> 20, enemyStrengthMultiplier |-> 10,
                           duration |-> 100]
      [] p = "danger"  -> [gateSpawnMultiplier |-> 10, enemySpawnMultiplier |-> 10,
                           gateValueMultiplier |-> 10, enemyStrengthMultiplier |-> 15,
                           duration |-> 100]
      [] p = "lucky"   -> [gateSpawnMultiplier |-> 13, enemySpawnMultiplier |-> 7,
                           gateValueMultiplier |-> 13, enemyStrengthMultiplier |-> 8,
                           duration |-> 150]
      [] p = "chaotic" -> [gateSpawnMultiplier |-> 15, enemySpawnMultiplier |-> 15,
                           gateValueMultiplier |-> 15, enemyStrengthMultiplier |-> 15,
                           duration |-> 80]
      [] p = "empty"   -> [gateSpawnMultiplier |-> 0, enemySpawnMultiplier |-> 0,
                           gateValueMultiplier |-> 10, enemyStrengthMultiplier |-> 10,
                           duration |-> 60]

NoPersonality == [personality |-> "normal", timeRemaining |-> 0]

NewLanePersonality ==
    [activePersonalities |-> [l \in Lanes |-> NoPersonality],
     timeSinceAssignment |-> 0]

HasActivePersonality(lp, lane) ==
    lp.activePersonalities[lane].personality # "normal"

\* getLaneModifiers(lane)
GetLaneModifiers(lp, lane) ==
    LET config == PersonalityConfig(lp.activePersonalities[lane].personality)
    IN  IF HasActivePersonality(lp, lane)
        THEN [gateSpawnMultiplier |-> config.gateSpawnMultiplier,
              enemySpawnMultiplier |-> config.enemySpawnMultiplier,
              gateValueMultiplier |-> config.gateValueMultiplier,
              enemyStrengthMultiplier |-> config.enemyStrengthMultiplier]
        ELSE [gateSpawnMultiplier |-> 10, enemySpawnMultiplier |-> 10,
              gateValueMultiplier |-> 10, enemyStrengthMultiplier |-> 10]

AvailableLanes(lp) == {l \in Lanes : ~HasActivePersonality(lp, l)}

\* The lanes whose personality has fallen below 0.
ExpiredLanesLate(lp, deltaTime) ==
    {l \in Lanes : /\ lp.activePersonalities[l].personality # "normal"
                   /\ lp.activePersonalities[l].timeRemaining - deltaTime < 0}

\* No lane: a first loop of update(deltaTime) that removes nothing.
ExpiredLanesNone(lp, deltaTime) == {}

\* The lanes whose personality the first loop of update(deltaTime) removes.
ExpiredLanes(lp, deltaTime) ==
    {l \in Lanes : /\ HasActivePersonality(lp, l)
                   /\ lp.activePersonalities[l].timeRemaining - deltaTime <= 0}

\* The first loop of update(deltaTime).
CountDownPersonalities(lp, deltaTime) ==
    [lp EXCEPT !.activePersonalities =
        [l \in Lanes |->
           IF ~HasActivePersonality(lp, l) \/ l \in ExpiredLanes(lp, deltaTime)
           THEN NoPersonality
           ELSE [lp.activePersonalities[l] EXCEPT !.timeRemaining = @ - deltaTime]]]

\* assignRandomPersonality() with the lane and the personality it draws; lane is
\* used only when some lane is available.
AssignPersonality(lp, lane, p) ==
    IF AvailableLanes(lp) = {} THEN lp
    ELSE [lp EXCEPT !.activePersonalities[lane] =
            [personality |-> p, timeRemaining |-> PersonalityConfig(p).duration]]

\* update(deltaTime)
LanePersonalityUpdate(lp, deltaTime, lane, p) ==
    LET counted == [CountDownPersonalities(lp, deltaTime)
                      EXCEPT !.timeSinceAssignment = @ + deltaTime]
    IN  IF counted.timeSinceAssignment >= assignmentInterval
        THEN [AssignPersonality(counted, lane, p) EXCEPT !.timeSinceAssignment = 0]
        ELSE counted

(***************************************************************************)
(* State                                                                   *)
(***************************************************************************)
VARIABLES
    gameState,                \* EnhancedGameManager.gameState
    distance,                 \* EnhancedGameManager.distance
    manualSpeedMultiplier,    \* EnhancedGameManager.manualSpeedMultiplier
    pendingFrames,            \* gameLoop callbacks registered with requestAnimationFrame
    player,                   \* Player
    obstacles,                \* ObstacleManager.obstacles
    spawnTimer,               \* ObstacleManager.spawnTimer
    activePowerUps,           \* EnhancedGameManager.activePowerUps (entities on the field)
    powerUpManager,           \* PowerUpManager.activePowerUps (buffs)
    comboSystem,
    difficultySystem,
    randomEventSystem,
    momentumSystem,
    comebackSystem,
    adaptiveDifficultySystem,
    criticalHitSystem,
    obstaclePatternSystem,
    lanePersonalitySystem,
    adaptivePerformance,      \* AdaptiveDifficultySystem: the fields of the evaluation
    hostRuns,                 \* two runs of NearMissSystem and EnemyMutationSystem
    mutationSystem,           \* EnemyMutationSystem.mutationChance
    regeneration,             \* tick time with REGEN active, and the crowd it added
    tick,                     \* observations of the last gameLoop() call
    call,                     \* observations of the last direct call of a method
    session,                  \* observations accumulated since the last (re)start
    fieldSpawns,              \* power-ups spawned by the random spawner so far
    steps                     \* actions taken so far

vars ==
    <<gameState, distance, manualSpeedMultiplier, pendingFrames, player, obstacles,
      spawnTimer, activePowerUps, powerUpManager, comboSystem, difficultySystem,
      randomEventSystem, momentumSystem, comebackSystem, adaptiveDifficultySystem,
      criticalHitSystem, obstaclePatternSystem, lanePersonalitySystem,
      adaptivePerformance, hostRuns, mutationSystem, regeneration, tick, call, session,
      fieldSpawns, steps>>

\* The world record of the current state, with empty observations.
World ==
    LET f == [gameState |-> gameState, distance |-> distance,
              manualSpeedMultiplier |-> manualSpeedMultiplier,
              player |-> player, obstacles |-> obstacles, spawnTimer |-> spawnTimer,
              activePowerUps |-> activePowerUps, powerUpManager |-> powerUpManager,
              comboSystem |-> comboSystem, difficultySystem |-> difficultySystem,
              randomEventSystem |-> randomEventSystem,
              momentumSystem |-> momentumSystem, comebackSystem |-> comebackSystem,
              adaptiveDifficultySystem |-> adaptiveDifficultySystem,
              criticalHitSystem |-> criticalHitSystem]
    IN  f @@ [ran |-> FALSE, deltaTime |-> 0, stateAtEntry |-> gameState,
              entry |-> Snapshot(f), afterCollisions |-> Snapshot(f),
              contacts |-> <<>>, handled |-> <<>>, overCheck |-> "none",
              triggered |-> "none", reentered |-> {}]

Observations(w) ==
    [ran |-> w.ran, deltaTime |-> w.deltaTime, stateAtEntry |-> w.stateAtEntry,
     entry |-> w.entry, afterCollisions |-> w.afterCollisions,
     contacts |-> w.contacts, handled |-> w.handled, overCheck |-> w.overCheck,
     triggered |-> w.triggered, reentered |-> w.reentered]

\* The systems whose callbacks only write to the console: nothing the orchestrator
\* computes reads them.
otherSystems ==
    <<obstaclePatternSystem, lanePersonalitySystem, adaptivePerformance, hostRuns,
      mutationSystem, regeneration>>

Install(w) ==
    /\ gameState' = w.gameState
    /\ distance' = w.distance
    /\ manualSpeedMultiplier' = w.manualSpeedMultiplier
    /\ player' = w.player
    /\ obstacles' = w.obstacles
    /\ spawnTimer' = w.spawnTimer
    /\ activePowerUps' = w.activePowerUps
    /\ powerUpManager' = w.powerUpManager
    /\ comboSystem' = w.comboSystem
    /\ difficultySystem' = w.difficultySystem
    /\ randomEventSystem' = w.randomEventSystem
    /\ momentumSystem' = w.momentumSystem
    /\ comebackSystem' = w.comebackSystem
    /\ adaptiveDifficultySystem' = w.adaptiveDifficultySystem
    /\ criticalHitSystem' = w.criticalHitSystem
    /\ UNCHANGED otherSystems
    /\ tick' = Observations(w)

NoCall == [op |-> "none"]
NewSession ==
    [overChecks |-> 0, secondChances |-> 0, maxDistance |-> 0, levelUps |-> 0,
     idle |-> 0, emitted |-> <<>>, lastStarted |-> "none",
     lastCallback |-> "none", sinceStart |-> 0, assisted |-> FALSE,
     sinceAssist |-> 0, crowdUpdates |-> 0, armed |-> FALSE,
     sinceEnded |-> [t \in PatternType |-> -1]]

\* The state after construction and initialize(): the menu.
Init ==
    /\ gameState = "MENU"
    /\ distance = 0
    /\ manualSpeedMultiplier = 1
    /\ pendingFrames = 0
    /\ player = NewPlayer
    /\ obstacles = <<>>
    /\ spawnTimer = 0
    /\ activePowerUps = <<>>
    /\ powerUpManager = NoPowerUps
    /\ comboSystem = NewCombo
    /\ difficultySystem = NewDifficulty
    /\ randomEventSystem \in {NewRandomEvent(i) : i \in EventIntervals}
    /\ momentumSystem = NewMomentum
    /\ comebackSystem = NewComeback
    /\ adaptiveDifficultySystem = NewAdaptive
    /\ criticalHitSystem = NewCritical
    /\ obstaclePatternSystem = NewPatternSystem
    /\ lanePersonalitySystem = NewLanePersonality
    /\ adaptivePerformance = NewPerformance
    /\ hostRuns = <<NewRun, NewRun>>
    /\ mutationSystem = NewMutationSystem
    /\ regeneration = [elapsed |-> 0, gained |-> 0]
    /\ tick = Observations(World)
    /\ call = NoCall
    /\ session = NewSession
    /\ fieldSpawns = 0
    /\ steps = 0

(***************************************************************************)
(* The game: startGame, the frame callback, pause, resume.                 *)
(***************************************************************************)
NoChoice == [kind |-> "gate", value |-> 0, trap |-> 0]
NoRain == << >>

\* The end of gameLoop() after update() has produced world w1: the new state, one more
\* callback registered, the observations of the session brought up to date.
Registered(w1, base, ses, spawned) ==
    /\ Install(w1)
    /\ pendingFrames' = base + 1
    /\ fieldSpawns' = fieldSpawns + spawned
    /\ session' = [ses EXCEPT
                     !.overChecks = @ + (IF w1.overCheck = "none" THEN 0 ELSE 1),
                     !.secondChances = @ + (IF w1.overCheck = "saved" THEN 1 ELSE 0),
                     !.maxDistance = Max(@, w1.distance)]

\* The draws that update() makes only on some paths: trial is the update computed
\* without them, which shows whether the comeback coin is tossed and whether
\* rollCritical is called.
DrawRest(w, deltaTime, r0, trial, base, ses) ==
    \E coin \in (IF trial.triggered = "shield_grant"
                    /\ trial.comebackSystem.dangerLevel >= 16
                 THEN BOOLEAN ELSE {FALSE}),
       roll \in (IF \E i \in 1..Len(trial.handled) : trial.handled[i].kind = "gate"
                 THEN CritRolls ELSE {9999}) :
      \E rain \in (IF coin THEN RainChoices ELSE {NoRain}) :
        Registered(Update(w, deltaTime,
                          [r0 EXCEPT !.coin = coin, !.rain = rain, !.roll = roll]),
                   base, ses, IF r0.spawnField THEN 1 ELSE 0)

\* update(deltaTime) on world w with every random draw and the input of the tick
\* chosen; a draw the tick does not make is fixed.  base is the number of callbacks
\* pending besides the one gameLoop() registers after update() and ses the session
\* observations before the tick.
RunUpdate(w, deltaTime, base, ses) ==
    LET adjusted == Adjusted(deltaTime, w.manualSpeedMultiplier, w.difficultySystem,
                             w.powerUpManager)
        spawn == SpawnNow(w.spawnTimer, adjusted, w.difficultySystem, w.obstacles)
        certain == PowerUpSpawnCertain(w.difficultySystem, adjusted)
        possible == PowerUpSpawnPossible(w.difficultySystem, adjusted)
        starts == EventDue(w.randomEventSystem, deltaTime)
        ends == EventEnds(w.randomEventSystem, deltaTime)
    IN  \E inputDirection \in InputDirections,
           lane \in (IF spawn THEN SpawnLanes ELSE {0}),
           choice \in (IF spawn THEN ObstacleChoices ELSE {NoChoice}),
           spawnField \in (IF certain THEN {TRUE}
                           ELSE IF possible THEN BOOLEAN ELSE {FALSE}),
           pick \in (IF starts THEN EventPicks ELSE {"none"}),
           interval \in (IF ends THEN EventIntervals ELSE {0}) :
          /\ spawnField => fieldSpawns < MaxFieldSpawns
          /\ \E fieldLane \in (IF spawnField THEN SpawnLanes ELSE {0}),
                fieldType \in (IF spawnField THEN FieldSpawnTypes ELSE {"shield"}) :
               \E r0 \in {[inputDirection |-> inputDirection, lane |-> lane,
                           choice |-> choice, spawnField |-> spawnField,
                           fieldLane |-> fieldLane, fieldType |-> fieldType,
                           pick |-> pick, interval |-> interval,
                           coin |-> FALSE, rain |-> NoRain, roll |-> 9999]} :
                 DrawRest(w, deltaTime, r0, Update(w, deltaTime, r0), base, ses)

\* gameLoop(): nothing unless PLAYING; else update(deltaTime) and one more callback
\* registered, whatever update() did to the game state.
GameLoop(w, deltaTime, base, ses) ==
    IF w.gameState # "PLAYING"
    THEN /\ Install(w)
         /\ pendingFrames' = base
         /\ fieldSpawns' = fieldSpawns
         /\ session' = ses
    ELSE RunUpdate(w, deltaTime, base, ses)

PlayerReset(p) ==
    [p EXCEPT !.crowdCount = INITIAL_CROWD_COUNT, !.currentLane = 0,
              !.targetLane = 0, !.x = LaneX(0),
              !.laneTransitionProgress = LANE_SWITCH_DURATION]

\* The resets of startGame(), up to its call of gameLoop().
Restarted(w) ==
    [w EXCEPT !.gameState = "PLAYING",
              !.distance = 0,
              !.player = PlayerReset(@),
              !.obstacles = <<>>,
              !.spawnTimer = 0,
              !.activePowerUps = <<>>,
              !.comboSystem = ResetCombo(@),
              !.difficultySystem = NewDifficulty,
              !.randomEventSystem = RandomEventDestroy(@),
              !.momentumSystem = NewMomentum,
              !.adaptiveDifficultySystem = NewAdaptive,
              !.criticalHitSystem = NewCritical,
              !.comebackSystem = NewComeback]

\* startGame(): callable from the start button, the "play again" button and the
\* restart button shown during play.  lastFrameTime is set just before gameLoop()
\* reads the clock, so the first update has deltaTime 0.
StartGame ==
    /\ steps < MaxSteps
    /\ steps' = steps + 1
    /\ call' = [op |-> "startGame"]
    /\ GameLoop([Restarted(World) EXCEPT !.stateAtEntry = "PLAYING"], 0,
                pendingFrames, NewSession)

\* The browser runs one registered gameLoop callback, deltaTime after the last one.
FrameCallback ==
    /\ steps < MaxSteps
    /\ pendingFrames > 0
    /\ steps' = steps + 1
    /\ call' = [op |-> "frame"]
    /\ \E deltaTime \in DeltaTimes :
         GameLoop(World, deltaTime, pendingFrames - 1, session)

\* pause()
Pause ==
    /\ steps < MaxSteps
    /\ gameState = "PLAYING"
    /\ steps' = steps + 1
    /\ call' = [op |-> "pause"]
    /\ Install([World EXCEPT !.gameState = "PAUSED"])
    /\ UNCHANGED <<pendingFrames, fieldSpawns, session>>

\* resume(): as startGame(), gameLoop() is called right after lastFrameTime is set.
Resume ==
    /\ steps < MaxSteps
    /\ gameState = "PAUSED"
    /\ steps' = steps + 1
    /\ call' = [op |-> "resume"]
    /\ GameLoop([World EXCEPT !.gameState = "PLAYING", !.stateAtEntry = "PLAYING"],
                0, pendingFrames, session)

Next == StartGame \/ FrameCallback \/ Pause \/ Resume

Spec == Init /\ [][Next]_vars

(***************************************************************************)
(* Properties of a whole tick                                              *)
(***************************************************************************)
\* The enemies, and the gates, whose collision was detected in the last tick: by the
\* obstacle manager's loop (contacts) or by the orchestrator's handlers (handled).
EnemyContacts == {i \in 1..Len(tick.contacts) : tick.contacts[i].kind = "enemy"}
GateContacts == {i \in 1..Len(tick.contacts) : tick.contacts[i].kind = "gate"}
EnemiesHandled == {i \in 1..Len(tick.handled) : tick.handled[i].kind = "enemy"}
GatesHandled == {i \in 1..Len(tick.handled) : tick.handled[i].kind = "gate"}
ShieldedContact ==
    /\ tick.ran
    /\ EnemyContacts \cup EnemiesHandled # {}
    /\ HasShield(tick.entry.powerUpManager)
    /\ ~HasGhost(tick.entry.powerUpManager)

\* C2: in a tick in which the player touches an enemy crowd while the shield buff is
\* active and the ghost buff is not, no enemy reduces the crowd and the shield is
\* gone once the collisions of the tick have been handled.
C2_ShieldAbsorbsContact ==
    ShieldedContact =>
        /\ \A i \in EnemyContacts : tick.contacts[i].after >= tick.contacts[i].before
        /\ \A i \in EnemiesHandled : tick.handled[i].outcome # "damage"
        /\ ~HasShield(tick.afterCollisions.powerUpManager)

\* The tick touched exactly one gate, not yet collected, and no enemy.
OneGateTouched ==
    /\ tick.ran
    /\ Cardinality(GateContacts) + Cardinality(GatesHandled) = 1
    /\ EnemyContacts \cup EnemiesHandled = {}

\* The base value of that gate and what the crowd gained in the collision phase.
TouchedGateValue ==
    IF GateContacts # {} THEN tick.contacts[CHOOSE i \in GateContacts : TRUE].value
    ELSE tick.handled[CHOOSE i \in GatesHandled : TRUE].raw
CollisionGain == tick.afterCollisions.crowdCount - tick.entry.crowdCount

\* The rewards checkGateCollisions can compose for that gate from the modifier state
\* the tick started with, one for each outcome of the critical roll.
ComposedRewards ==
    { ComposedGateValue(tick.entry.momentumSystem, tick.entry.comebackSystem,
                        tick.entry.powerUpManager, tick.entry.criticalHitSystem,
                        TouchedGateValue, roll).value : roll \in CritRolls }

\* C4: in a tick in which the player touches a gate not yet collected, the crowd grows
\* once, by the composed reward, and the collection is counted by the combo tracker,
\* the momentum tracker and the adaptive controller.
C4_GateRewardComposedOnce ==
    OneGateTouched =>
        /\ CollisionGain \in ComposedRewards
        /\ tick.afterCollisions.comboSystem.comboCount
             = tick.entry.comboSystem.comboCount + 1
        /\ tick.afterCollisions.momentumSystem.consecutiveGates
             = tick.entry.momentumSystem.consecutiveGates + 1
        /\ tick.afterCollisions.adaptiveDifficultySystem.gatesCollected
             = tick.entry.adaptiveDifficultySystem.gatesCollected + 1

\* The distance a tick covers with the speed multipliers of a given buff state.
DistanceGain(pm) ==
    Adjusted(tick.deltaTime, manualSpeedMultiplier, tick.entry.difficultySystem, pm)

C7_SecondChanceCancelsOnce ==
    (tick.ran /\ tick.overCheck # "none") =>
        /\ session.overChecks = 1 =>
             (tick.overCheck = "saved" /\ gameState = "PLAYING"
              /\ comebackSystem.secondChanceUsed)
        /\ session.overChecks = 2 => (tick.overCheck = "over" /\ gameState = "GAME_OVER")

\* C8: after startGame() the modifier state is the initial one: no buff active, no
\* random event active and its idle timer 0, combo and momentum reset, adaptive,
\* critical and comeback state reset, distance 0, level 1.
C8_StartGameResetsModifiers ==
    call.op = "startGame" =>
        /\ \A t \in PowerUpTypes : ~powerUpManager[t].active
        /\ randomEventSystem.activeEvent = "none"
        /\ randomEventSystem.timeSinceLastEvent = 0
        /\ comboSystem.comboCount = 0
        /\ momentumSystem.currentTier = "NONE"
        /\ momentumSystem.consecutiveGates = 0
        /\ adaptiveDifficultySystem = NewAdaptive
        /\ criticalHitSystem = NewCritical
        /\ ~comebackSystem.secondChanceUsed
        /\ distance = 0
        /\ difficultySystem.currentLevel = 1

\* C9: at most one gameLoop callback is pending, and update() runs only when the
\* game is PLAYING.
C9_OneFramePending ==
    /\ pendingFrames <= 1
    /\ tick.ran => tick.stateAtEntry = "PLAYING"

(***************************************************************************)
(* ComebackSystem on its own: its public methods called in any order.      *)
(***************************************************************************)
UnchangedButComeback ==
    UNCHANGED <<otherSystems, gameState, distance, manualSpeedMultiplier, pendingFrames, player,
                obstacles, spawnTimer, activePowerUps, powerUpManager, comboSystem,
                difficultySystem, randomEventSystem, momentumSystem,
                adaptiveDifficultySystem, criticalHitSystem, tick, fieldSpawns>>

ComebackUpdateCrowdSize ==
    /\ steps < MaxCalls
    /\ steps' = steps + 1
    /\ \E crowdSize \in CrowdSizes, coin \in BOOLEAN :
         /\ comebackSystem' = UpdateCrowdSize(comebackSystem, crowdSize, coin).cb
         /\ call' = [op |-> "updateCrowdSize", size |-> crowdSize,
                     before |-> comebackSystem,
                     assisted |-> session.assisted,
                     sinceAssist |-> session.sinceAssist,
                     fired |-> UpdateCrowdSize(comebackSystem, crowdSize, coin).triggered]
         /\ session' =
              IF UpdateCrowdSize(comebackSystem, crowdSize, coin).triggered = "none"
              THEN session
              ELSE [session EXCEPT !.assisted = TRUE, !.sinceAssist = 0]
    /\ UnchangedButComeback

ComebackCheckSecondChance ==
    /\ steps < MaxCalls
    /\ steps' = steps + 1
    /\ \E crowdSize \in CrowdSizes, sc \in {CheckSecondChance(comebackSystem, s) :
                                             s \in CrowdSizes} :
         /\ sc = CheckSecondChance(comebackSystem, crowdSize)
         /\ comebackSystem' = sc.cb
         /\ call' = [op |-> "checkSecondChance", size |-> crowdSize,
                     before |-> comebackSystem, result |-> sc.result,
                     fired |-> IF sc.result THEN "onSecondChanceUsed" ELSE "none"]
         /\ session' = [session EXCEPT
                          !.secondChances = @ + (IF sc.result THEN 1 ELSE 0)]
    /\ UnchangedButComeback

ComebackTick ==
    /\ steps < MaxCalls
    /\ steps' = steps + 1
    /\ \E deltaTime \in LeafDeltaTimes :
         /\ comebackSystem' = ComebackUpdate(comebackSystem, deltaTime)
         /\ call' = [op |-> "update", before |-> comebackSystem, fired |-> "none"]
         /\ session' = [session EXCEPT !.sinceAssist = @ + deltaTime]
    /\ UnchangedButComeback

ComebackReset ==
    /\ steps < MaxCalls
    /\ steps' = steps + 1
    /\ comebackSystem' = NewComeback
    /\ call' = [op |-> "reset", before |-> comebackSystem, fired |-> "none"]
    /\ session' = NewSession
    /\ UnchangedButComeback

NextComeback ==
    ComebackUpdateCrowdSize \/ ComebackCheckSecondChance \/ ComebackTick
        \/ ComebackReset

SpecComeback == Init /\ [][NextComeback]_vars

\* C6: in a session checkSecondChance returns true (firing onSecondChanceUsed) at most
\* once, only for 0 < size <= 5; once it has returned true every later call returns
\* false until reset(); a call that returns false changes nothing and fires nothing.
C6_SecondChanceOnce ==
    /\ session.secondChances <= 1
    /\ session.secondChances = 1 => comebackSystem.secondChanceUsed
    /\ call.op = "checkSecondChance" =>
         /\ call.result => (0 < call.size /\ call.size <= 5
                            /\ ~call.before.secondChanceUsed
                            /\ call.fired = "onSecondChanceUsed")
         /\ call.before.secondChanceUsed => ~call.result
         /\ ~call.result => (comebackSystem = call.before /\ call.fired = "none")

\* A call with size 0 that returns false after the second chance was used.
C6_RefusedAfterUse ==
    /\ call.op = "checkSecondChance"
    /\ call.size = 0
    /\ ~call.result
    /\ session.secondChances = 1

(***************************************************************************)
(* DifficultySystem on its own.                                            *)
(***************************************************************************)
UnchangedButDifficulty ==
    UNCHANGED <<otherSystems, gameState, distance, manualSpeedMultiplier, pendingFrames, player,
                obstacles, spawnTimer, activePowerUps, powerUpManager, comboSystem,
                comebackSystem, randomEventSystem, momentumSystem,
                adaptiveDifficultySystem, criticalHitSystem, tick, fieldSpawns>>

DifficultyUpdateDistance ==
    /\ steps < MaxCalls
    /\ steps' = steps + 1
    /\ \E units \in Distances :
         /\ difficultySystem' = UpdateDistance(difficultySystem, units * 300).d
         /\ call' = [op |-> "updateDistance", units |-> units,
                     before |-> difficultySystem]
         /\ session' = [session EXCEPT
                          !.maxDistance = Max(@, units),
                          !.levelUps = @ + (IF UpdateDistance(difficultySystem,
                                                              units * 300).levelUp
                                            THEN 1 ELSE 0)]
    /\ UnchangedButDifficulty

DifficultyReset ==
    /\ steps < MaxCalls
    /\ steps' = steps + 1
    /\ difficultySystem' = NewDifficulty
    /\ call' = [op |-> "reset", before |-> difficultySystem]
    /\ session' = NewSession
    /\ UnchangedButDifficulty

NextDifficulty == DifficultyUpdateDistance \/ DifficultyReset

SpecDifficulty == Init /\ [][NextDifficulty]_vars

\* C10: after any updateDistance calls since construction or reset, the level is
\* min(floor(D / 100) + 1, 10) for the largest distance D passed; so it lies in 1..10,
\* no call lowers it, it is 3 once 250 was the largest distance and 10 once 999 was.
C10_LevelOfLargestDistance ==
    /\ difficultySystem.currentLevel = Min((session.maxDistance \div 100) + 1, 10)
    /\ difficultySystem.currentLevel \in 1..10
    /\ call.op = "updateDistance" =>
         difficultySystem.currentLevel >= call.before.currentLevel
    /\ session.maxDistance = 250 => difficultySystem.currentLevel = 3
    /\ session.maxDistance = 999 => difficultySystem.currentLevel = 10

\* C11: the number of onLevelUp calls since construction or reset is level - 1, also
\* when one updateDistance call raises the level by more than one; reset() calls
\* nothing.
C11_LevelUpPerIncrement ==
    /\ session.levelUps = difficultySystem.currentLevel - 1
    /\ call.op = "reset" => session.levelUps = 0

\* A smaller distance passed after 250: the level stays 3.
C10_SmallerDistanceKeepsLevel ==
    /\ call.op = "updateDistance"
    /\ call.units < session.maxDistance
    /\ session.maxDistance = 250
    /\ difficultySystem.currentLevel = 3

(***************************************************************************)
(* The collision handlers on their own: checkGateCollisions and            *)
(* checkEnemyCollisions entered with one obstacle in contact with the      *)
(* player that no checkCollision has marked yet.                           *)
(***************************************************************************)
InContact(o) == [o EXCEPT !.z = PLAYER_Z_POSITION]

InitHandlers ==
    /\ gameState = "PLAYING"
    /\ distance = 0
    /\ manualSpeedMultiplier = 1
    /\ pendingFrames = 1
    /\ player \in {[NewPlayer EXCEPT !.crowdCount = c] : c \in HandlerCrowds}
    /\ comebackSystem = UpdateCrowdSize(NewComeback, player.crowdCount, FALSE).cb
    /\ obstacles \in {<<InContact(NewGate(0, v, 0))>> : v \in HandlerGateValues}
                       \cup {<<InContact(NewEnemyCrowd(0, n))>> : n \in HandlerEnemyCounts}
    /\ spawnTimer = 0
    /\ activePowerUps = <<>>
    /\ powerUpManager \in
         {[t \in PowerUpTypes |->
              IF t \in buffs
              THEN [active |-> TRUE, timeRemaining |-> 50, duration |-> 50]
              ELSE NoPowerUp] : buffs \in HandlerBuffs}
    /\ comboSystem \in {[comboCount |-> n, comboTimer |-> COMBO_TIMEOUT, maxCombo |-> n] :
                          n \in HandlerCombos}
    /\ difficultySystem = NewDifficulty
    /\ randomEventSystem \in {NewRandomEvent(i) : i \in EventIntervals}
    /\ momentumSystem \in {UpdateTier([NewMomentum EXCEPT !.consecutiveGates = g]) :
                             g \in HandlerStreaks}
    /\ adaptiveDifficultySystem = NewAdaptive
    /\ criticalHitSystem = NewCritical
    /\ obstaclePatternSystem = NewPatternSystem
    /\ lanePersonalitySystem = NewLanePersonality
    /\ adaptivePerformance = NewPerformance
    /\ hostRuns = <<NewRun, NewRun>>
    /\ mutationSystem = NewMutationSystem
    /\ regeneration = [elapsed |-> 0, gained |-> 0]
    /\ tick = Observations(World)
    /\ call = NoCall
    /\ session = NewSession
    /\ fieldSpawns = 0
    /\ steps = 0

CallCheckGateCollisions ==
    /\ steps < MaxHandlerCalls
    /\ steps' = steps + 1
    /\ \E roll \in CritRolls :
         /\ Install(CheckGateCollisions(World, roll))
         /\ call' = [op |-> "checkGateCollisions", before |-> Snapshot(World),
                     obstacle |-> obstacles[1], roll |-> roll]
    /\ UNCHANGED <<pendingFrames, session, fieldSpawns>>

CallCheckEnemyCollisions ==
    /\ steps < MaxHandlerCalls
    /\ steps' = steps + 1
    /\ Install(CheckEnemyCollisions(World))
    /\ call' = [op |-> "checkEnemyCollisions", before |-> Snapshot(World),
                obstacle |-> obstacles[1], roll |-> 0]
    /\ UNCHANGED <<pendingFrames, session, fieldSpawns>>

NextHandlers == CallCheckGateCollisions \/ CallCheckEnemyCollisions

SpecHandlers == InitHandlers /\ [][NextHandlers]_vars

\* checkEnemyCollisions has just handled an enemy in contact.
EnemyHandled ==
    /\ call.op = "checkEnemyCollisions"
    /\ call.obstacle.kind = "enemy"
    /\ ~call.obstacle.hasCollided

\* Combo, momentum and buffs are as before the call.
NothingElseChanged ==
    /\ comboSystem = call.before.comboSystem
    /\ momentumSystem = call.before.momentumSystem
    /\ adaptiveDifficultySystem = call.before.adaptiveDifficultySystem

GateHandled ==
    /\ call.op = "checkGateCollisions"
    /\ call.obstacle.kind = "gate"
    /\ ~call.obstacle.hasCollided

\* floor(value x momentum tier multiplier).
MomentumStage(tier, value) ==
    CASE tier = "HOT" -> (value * 125) \div 100
      [] tier = "BLAZING" -> (value * 150) \div 100
      [] tier = "UNSTOPPABLE" -> (value * 200) \div 100
      [] OTHER -> value

\* The multiplier of a critical roll (in ten-thousandths) at base luck.
RolledMultiplier(roll) ==
    IF roll < 50 THEN 10 ELSE IF roll < 200 THEN 5 ELSE IF roll < 1000 THEN 2 ELSE 1

\* The reward staged as the claim states it.
StagedReward(before, value, roll) ==
    RolledMultiplier(roll)
      * (IF before.powerUpManager["frenzy"].active THEN 2 ELSE 1)
      * ComebackGateValue(before.comebackSystem,
                          MomentumStage(before.momentumSystem.currentTier, value))

UnchangedButPowerUps ==
    UNCHANGED <<otherSystems, gameState, distance, manualSpeedMultiplier, pendingFrames, player,
                obstacles, spawnTimer, activePowerUps, comebackSystem, comboSystem,
                difficultySystem, randomEventSystem, momentumSystem,
                adaptiveDifficultySystem, criticalHitSystem, tick, fieldSpawns,
                session>>

PowerUpActivate ==
    /\ steps < MaxCalls
    /\ steps' = steps + 1
    /\ \E type \in LeafPowerUpTypes, duration \in LeafDurations :
         /\ powerUpManager' = ActivatePowerUp(powerUpManager, type, duration)
         /\ call' = [op |-> "activatePowerUp", type |-> type, duration |-> duration,
                     before |-> powerUpManager, fired |-> {}]
    /\ UnchangedButPowerUps

PowerUpTick ==
    /\ steps < MaxCalls
    /\ steps' = steps + 1
    /\ \E deltaTime \in LeafTickLengths :
         /\ powerUpManager' = PowerUpManagerUpdate(powerUpManager, deltaTime)
         /\ call' = [op |-> "update", deltaTime |-> deltaTime,
                     before |-> powerUpManager,
                     fired |-> ExpiredTypes(powerUpManager, deltaTime)]
    /\ UnchangedButPowerUps

PowerUpConsumeShield ==
    /\ steps < MaxCalls
    /\ steps' = steps + 1
    /\ powerUpManager' = ConsumeShield(powerUpManager)
    /\ call' = [op |-> "consumeShield", before |-> powerUpManager,
                result |-> HasShield(powerUpManager),
                fired |-> IF HasShield(powerUpManager) THEN {"shield"} ELSE {}]
    /\ UnchangedButPowerUps

NextPowerUps == PowerUpActivate \/ PowerUpTick \/ PowerUpConsumeShield

SpecPowerUps == Init /\ [][NextPowerUps]_vars

\* C12: activatePowerUp(type, d) on an active type leaves max(remaining, d), never
\* less than before; on an inactive type it leaves remaining = d; the type is active
\* afterwards and the entries of the other types are unchanged.
C12_ActivateKeepsLongerTime ==
    call.op = "activatePowerUp" =>
        /\ powerUpManager[call.type].active
        /\ IF call.before[call.type].active
           THEN /\ powerUpManager[call.type].timeRemaining
                     = Max(call.before[call.type].timeRemaining, call.duration)
                /\ powerUpManager[call.type].timeRemaining
                     >= call.before[call.type].timeRemaining
           ELSE powerUpManager[call.type].timeRemaining = call.duration
        /\ \A t \in PowerUpTypes \ {call.type} : powerUpManager[t] = call.before[t]

\* An active buff refreshed with a duration shorter than its time left.
C12_ShorterRefresh ==
    /\ call.op = "activatePowerUp"
    /\ call.before[call.type].active
    /\ call.duration < call.before[call.type].timeRemaining
    /\ powerUpManager[call.type].timeRemaining = call.before[call.type].timeRemaining

\* C13: update(dt) takes dt off every active buff; a buff whose time left reaches 0
\* or less in an update is removed in that update and reported once to onExpired; the
\* shield is removed and reported at consumeShield(); a removed buff is not active;
\* consumeShield() without a shield returns false, changes and reports nothing.
C13_ExpiryOnce ==
    /\ call.op = "update" =>
         \A t \in PowerUpTypes :
            IF call.before[t].active /\ call.before[t].timeRemaining - call.deltaTime > 0
            THEN /\ powerUpManager[t].active
                 /\ powerUpManager[t].timeRemaining
                      = call.before[t].timeRemaining - call.deltaTime
                 /\ t \notin call.fired
            ELSE /\ ~IsActive(powerUpManager, t)
                 /\ (t \in call.fired) = call.before[t].active
    /\ call.op = "consumeShield" =>
         IF call.before["shield"].active
         THEN /\ call.result
              /\ ~HasShield(powerUpManager)
              /\ call.fired = {"shield"}
              /\ \A t \in PowerUpTypes \ {"shield"} : powerUpManager[t] = call.before[t]
         ELSE /\ ~call.result
              /\ powerUpManager = call.before
              /\ call.fired = {}

\* An update in which one buff's time left reached exactly 0 and another went on.
C13_ExpiresAtZero ==
    /\ call.op = "update"
    /\ \E t \in call.fired : call.before[t].timeRemaining = call.deltaTime
    /\ \E t \in PowerUpTypes : powerUpManager[t].active

\* C36: an active buff never has more time left than its duration, also after it
\* was activated again with a shorter duration.
C36_RemainingWithinDuration ==
    \A t \in PowerUpTypes :
        IsActive(powerUpManager, t)
            => powerUpManager[t].timeRemaining <= powerUpManager[t].duration

(***************************************************************************)
(* ObstaclePatternSystem on its own: update and reset called in any order. *)
(* session.idle is the tick time spent without a pattern since the last    *)
(* pattern ended, session.emitted the instructions handed to               *)
(* onSpawnRequest since the last pattern started, in the order of the      *)
(* calls, session.sinceEnded[t] the tick time since a pattern of type t    *)
(* last ended, -1 if none has.                                             *)
(***************************************************************************)
UnchangedButPatterns ==
    UNCHANGED <<lanePersonalitySystem, adaptivePerformance, hostRuns, mutationSystem, regeneration,
                gameState, distance, manualSpeedMultiplier,
                pendingFrames, player, obstacles, spawnTimer, activePowerUps,
                powerUpManager, comebackSystem, comboSystem, difficultySystem,
                randomEventSystem, momentumSystem, adaptiveDifficultySystem,
                criticalHitSystem, tick, fieldSpawns>>

PatternObserved(ses, before, deltaTime, r) ==
    [ses EXCEPT
       !.idle = IF r.ended # "none" THEN 0
                ELSE IF before.activePattern = "none" THEN @ + deltaTime ELSE @,
       !.emitted = IF r.started # "none" THEN <<>> ELSE @ \o r.spawned,
       !.lastStarted = IF r.started # "none" THEN r.started ELSE @,
       !.sinceEnded = [t \in PatternType |->
                         IF r.ended = t THEN 0
                         ELSE IF @[t] >= 0 THEN @[t] + deltaTime ELSE @[t]]]

PatternTick ==
    /\ steps < MaxPatternCalls
    /\ steps' = steps + 1
    /\ \E deltaTime \in PatternTickLengths :
         \E type \in (IF /\ obstaclePatternSystem.activePattern = "none"
                          /\ obstaclePatternSystem.timeSincePattern + deltaTime
                               >= patternInterval
                       THEN AvailablePatterns(obstaclePatternSystem)
                       ELSE {"none"}) :
           LET r == PatternSystemUpdate(obstaclePatternSystem, deltaTime, type)
           IN  /\ obstaclePatternSystem' = r.ps
               /\ call' = [op |-> "update", deltaTime |-> deltaTime,
                           before |-> obstaclePatternSystem,
                           previous |-> session.lastStarted,
                           spawned |-> r.spawned, started |-> r.started,
                           ended |-> r.ended]
               /\ session' = PatternObserved(session, obstaclePatternSystem,
                                             deltaTime, r)
    /\ UnchangedButPatterns

PatternReset ==
    /\ steps < MaxPatternCalls
    /\ steps' = steps + 1
    /\ obstaclePatternSystem' = NewPatternSystem
    /\ call' = [op |-> "reset", before |-> obstaclePatternSystem]
    /\ session' = NewSession
    /\ UnchangedButPatterns

NextPatterns == PatternTick \/ PatternReset

SpecPatterns == Init /\ [][NextPatterns]_vars

\* C14: the instructions of a pattern are handed to onSpawnRequest in non-decreasing
\* order of their delay, also when several become due in one tick, each instruction
\* once, and none once the pattern has ended.
C14_SpawnsInDelayOrder ==
    /\ \A i, j \in 1..Len(session.emitted) :
          i < j => session.emitted[i].delay <= session.emitted[j].delay
    /\ \A i, j \in 1..Len(session.emitted) :
          i # j => session.emitted[i].instruction # session.emitted[j].instruction
    /\ call.op = "update" /\ call.before.activePattern = "none"
          => call.spawned = <<>>

\* The parts of C14 that do not speak of the order: each instruction of the pattern
\* is emitted once, all of them by the tick that ends the pattern, none without a
\* pattern.
SpawnsOnceBeforeEnd ==
    /\ \A i, j \in 1..Len(session.emitted) :
          i # j => session.emitted[i].instruction # session.emitted[j].instruction
    /\ call.op = "update" /\ call.before.activePattern = "none"
          => call.spawned = <<>>
    /\ call.op = "update" /\ call.ended # "none"
          => {session.emitted[i].instruction : i \in 1..Len(session.emitted)}
               = 1..Len(PatternDelays(call.ended))

\* C15: a pattern starts only when none is active and 20 s of tick time without a
\* pattern have passed since the last one ended or since reset(); its type is not
\* RANDOM and differs from the type of the pattern started before it.
C15_PatternStarts ==
    call.op = "update" /\ call.started # "none" =>
        /\ call.before.activePattern = "none"
        /\ obstaclePatternSystem.activePattern = call.started
        /\ session.idle >= patternInterval
        /\ call.started \in PatternType \ {"random"}
        /\ call.started # call.previous

\* A second pattern of the session starts.
C15_SecondPatternStarts ==
    /\ call.op = "update"
    /\ call.started # "none"
    /\ call.previous # "none"

\* C38: when a pattern ends by its duration, every instruction of it has been handed
\* to onSpawnRequest, in that update or before: none is left in the queue that
\* endPattern() clears.
C38_AllFiredAtEnd ==
    call.op = "update" /\ call.ended # "none" =>
        /\ Len(session.emitted) = Len(PatternDelays(call.ended))
        /\ {session.emitted[i].instruction : i \in 1..Len(session.emitted)}
              = 1..Len(PatternDelays(call.ended))
        /\ Len(call.spawned) = Len(call.before.instructionQueue)

\* A pattern ended in an update that fired the rest of its instructions, after an
\* earlier update had fired the first of them.
C38_LastInstructionsAtEnd ==
    /\ call.op = "update"
    /\ call.ended # "none"
    /\ call.spawned # <<>>
    /\ Len(call.spawned) < Len(session.emitted)

\* C39: a pattern type that has ended starts again only after at least its declared
\* cooldown of tick time since that end.
C39_CooldownBetweenSameType ==
    call.op = "update" /\ call.started # "none"
                       /\ session.sinceEnded[call.started] >= 0
        => session.sinceEnded[call.started] >= PatternCooldown(call.started)

\* A pattern type that ended earlier in the session starts again.
C39_SameTypeStartsAgain ==
    /\ call.op = "update"
    /\ call.started # "none"
    /\ session.sinceEnded[call.started] >= 0

(***************************************************************************)
(* RandomEventSystem on its own: update, and destroy as startGame() calls  *)
(* it when a session begins.  session.idle is the tick time spent without  *)
(* an event since the last event ended or the session began,               *)
(* session.sinceStart the tick time since the last event started,          *)
(* session.lastCallback the last of onEventStart and onEventEnd fired.     *)
(***************************************************************************)
UnchangedButEvents ==
    UNCHANGED <<otherSystems, gameState, distance, manualSpeedMultiplier,
                pendingFrames, player, obstacles, spawnTimer, activePowerUps,
                powerUpManager, comebackSystem, comboSystem, difficultySystem,
                momentumSystem, adaptiveDifficultySystem, criticalHitSystem, tick,
                fieldSpawns>>

EventObserved(ses, ev, deltaTime, pick) ==
    [ses EXCEPT
       !.idle = IF EventEnds(ev, deltaTime) THEN 0
                ELSE IF ev.activeEvent = "none" THEN @ + deltaTime ELSE @,
       !.sinceStart = IF EventDue(ev, deltaTime) THEN 0
                      ELSE IF ev.activeEvent # "none" THEN @ + deltaTime ELSE @,
       !.lastStarted = IF EventDue(ev, deltaTime) THEN pick ELSE @,
       !.lastCallback = IF EventDue(ev, deltaTime) THEN "start"
                        ELSE IF EventEnds(ev, deltaTime) THEN "end" ELSE @]

EventTick ==
    /\ steps < MaxCalls
    /\ steps' = steps + 1
    /\ \E deltaTime \in EventTickLengths :
         \E pick \in (IF EventDue(randomEventSystem, deltaTime)
                       THEN LeafEventPicks ELSE {"none"}),
            interval \in (IF EventEnds(randomEventSystem, deltaTime)
                           THEN LeafEventIntervals ELSE {0}) :
           /\ randomEventSystem' =
                  RandomEventUpdate(randomEventSystem, deltaTime, pick, interval)
           /\ call' = [op |-> "update", deltaTime |-> deltaTime,
                       before |-> randomEventSystem,
                       previous |-> session.lastCallback,
                       started |-> pick,
                       ended |-> IF EventEnds(randomEventSystem, deltaTime)
                                 THEN randomEventSystem.activeEvent ELSE "none"]
           /\ session' = EventObserved(session, randomEventSystem, deltaTime, pick)
    /\ UnchangedButEvents

EventDestroy ==
    /\ steps < MaxCalls
    /\ steps' = steps + 1
    /\ randomEventSystem' = RandomEventDestroy(randomEventSystem)
    /\ call' = [op |-> "destroy", before |-> randomEventSystem]
    /\ session' = NewSession
    /\ UnchangedButEvents

NextEvents == EventTick \/ EventDestroy

SpecEvents == Init /\ [][NextEvents]_vars

\* C16: an event starts only when none is active; within a session onEventStart and
\* onEventEnd alternate, beginning with a start; onEventEnd carries the type of the
\* start before it and fires on the first tick at which the tick time since the
\* start reaches the duration of the event; the tick that ends an event sets the
\* idle timer to 0 and starts no event.
C16_EventsAlternate ==
    /\ randomEventSystem.activeEvent # "none"
          => /\ session.lastCallback = "start"
             /\ session.lastStarted = randomEventSystem.activeEvent
             /\ session.sinceStart < EventDuration(randomEventSystem.activeEvent)
    /\ call.op = "update" /\ call.started # "none"
          => /\ call.before.activeEvent = "none"
             /\ call.previous \in {"none", "end"}
             /\ call.ended = "none"
    /\ call.op = "update" /\ call.ended # "none"
          => /\ call.previous = "start"
             /\ call.ended = session.lastStarted
             /\ session.sinceStart >= EventDuration(call.ended)
             /\ call.started = "none"
             /\ randomEventSystem.activeEvent = "none"
             /\ randomEventSystem.timeSinceLastEvent = 0

\* An event has ended on the tick that brought its time to exactly its duration.
C16_EventEndsOnTime ==
    /\ call.op = "update"
    /\ call.ended # "none"
    /\ session.sinceStart = EventDuration(call.ended)

\* C17: an event starts only after 30 s of idle tick time since the last event ended
\* or the session began, and has started by the first tick after 60 s of it.
C17_EventStartsAfterIdle ==
    call.op = "update" =>
        /\ call.started # "none" => session.idle >= MIN_EVENT_INTERVAL
        /\ randomEventSystem.activeEvent = "none"
              => session.idle < MAX_EVENT_INTERVAL + call.deltaTime

(***************************************************************************)
(* The weighted selections on their own: selectRandomEvent and             *)
(* rollMutation with every pick of the grid of hundredths below the total  *)
(* weight.                                                                 *)
(***************************************************************************)
UnchangedButCall ==
    UNCHANGED <<otherSystems, gameState, distance, manualSpeedMultiplier,
                pendingFrames, player, obstacles, spawnTimer, activePowerUps,
                powerUpManager, comebackSystem, comboSystem, difficultySystem,
                randomEventSystem, momentumSystem, adaptiveDifficultySystem,
                criticalHitSystem, tick, fieldSpawns, session>>

CallSelectRandomEvent ==
    /\ steps < MaxWalkCalls
    /\ steps' = steps + 1
    /\ \E pick \in 0..(TotalWeight(EventTable, Len(EventTable)) - 1) :
         call' = [op |-> "selectRandomEvent", table |-> EventTable, pick |-> pick,
                  walked |-> TRUE, fallback |-> "double_trouble",
                  result |-> SelectRandomEvent(pick)]
    /\ UnchangedButCall

CallRollMutation ==
    /\ steps < MaxWalkCalls
    /\ steps' = steps + 1
    /\ \E roll \in MutationRolls :
         \E pick \in (IF roll < mutationChance
                       THEN 0..(TotalWeight(MutationTable, Len(MutationTable)) - 1)
                       ELSE {0}) :
           call' = [op |-> "rollMutation", table |-> MutationTable, pick |-> pick,
                    walked |-> roll < mutationChance, fallback |-> "normal",
                    result |-> RollMutation(roll, pick)]
    /\ UnchangedButCall

NextWalk == CallSelectRandomEvent \/ CallRollMutation

SpecWalk == Init /\ [][NextWalk]_vars

\* The last call walked a weight table.
Walked == call.op \in {"selectRandomEvent", "rollMutation"} /\ call.walked

\* The entries of the walked table whose prefix sum of weights is at least the pick.
Reaching == {i \in 1..Len(call.table) : TotalWeight(call.table, i) >= call.pick}

\* The first of them.
FirstReaching == CHOOSE i \in Reaching : \A j \in Reaching : i <= j

\* C18: for every pick below the total weight the walk returns the first entry
\* whose prefix sum of weights is at least the pick (so entry i for the picks in
\* (W(i-1), W(i)], and the first entry for 0); the fallback type is returned only
\* when no prefix sum reaches the pick.
C18_FirstPrefixReachingPick ==
    Walked =>
        /\ Reaching # {}
        /\ call.result = call.table[FirstReaching].type

\* C18 as the doubles of the source compute it: a pick strictly between two prefix
\* sums selects the entry whose interval holds it, and 0 the first entry; a pick
\* equal to a prefix sum W(i) selects entry i or, where the subtraction rounds to a
\* remainder above 0, entry i + 1; no pick below the total weight runs off the
\* table.
C18_WalkSelectsInterval ==
    Walked =>
        /\ Reaching # {}
        /\ TotalWeight(call.table, FirstReaching) > call.pick
              => call.result = call.table[FirstReaching].type
        /\ TotalWeight(call.table, FirstReaching) = call.pick
              => call.result \in {call.table[FirstReaching].type,
                                  call.table[FirstReaching + 1].type}

\* A pick equal to a prefix sum selected the entry after it.
C18_BoundaryPickSelectsNext ==
    /\ Walked
    /\ TotalWeight(call.table, FirstReaching) = call.pick
    /\ call.result = call.table[FirstReaching + 1].type

(***************************************************************************)
(* LanePersonalitySystem on its own: update and reset called in any order. *)
(* session.idle is the tick time since the last update that reached        *)
(* assignRandomPersonality, or since construction or reset.                *)
(***************************************************************************)
UnchangedButLanes ==
    UNCHANGED <<obstaclePatternSystem, adaptivePerformance, hostRuns, mutationSystem, regeneration,
                gameState, distance, manualSpeedMultiplier,
                pendingFrames, player, obstacles, spawnTimer, activePowerUps,
                powerUpManager, comebackSystem, comboSystem, difficultySystem,
                randomEventSystem, momentumSystem, adaptiveDifficultySystem,
                criticalHitSystem, tick, fieldSpawns>>

\* update(deltaTime) reaches assignRandomPersonality() and finds a lane to assign.
AssignmentDue(lp, deltaTime) ==
    /\ lp.timeSinceAssignment + deltaTime >= assignmentInterval
    /\ AvailableLanes(CountDownPersonalities(lp, deltaTime)) # {}

LaneTick ==
    /\ steps < MaxCalls
    /\ steps' = steps + 1
    /\ \E deltaTime \in LaneTickLengths :
         \E lane \in (IF AssignmentDue(lanePersonalitySystem, deltaTime)
                       THEN AvailableLanes(CountDownPersonalities(
                                lanePersonalitySystem, deltaTime))
                       ELSE {0}),
            p \in (IF AssignmentDue(lanePersonalitySystem, deltaTime)
                    THEN LanePersonalities ELSE {"normal"}) :
           /\ lanePersonalitySystem' =
                  LanePersonalityUpdate(lanePersonalitySystem, deltaTime, lane, p)
           /\ call' = [op |-> "update", deltaTime |-> deltaTime,
                       before |-> lanePersonalitySystem,
                       waited |-> session.idle + deltaTime,
                       expired |-> ExpiredLanes(lanePersonalitySystem, deltaTime),
                       assigned |-> IF AssignmentDue(lanePersonalitySystem, deltaTime)
                                    THEN {lane} ELSE {}]
           /\ session' = [session EXCEPT
                            !.idle = IF lanePersonalitySystem.timeSinceAssignment
                                        + deltaTime >= assignmentInterval
                                     THEN 0 ELSE @ + deltaTime]
    /\ UnchangedButLanes

LaneReset ==
    /\ steps < MaxCalls
    /\ steps' = steps + 1
    /\ lanePersonalitySystem' = NewLanePersonality
    /\ call' = [op |-> "reset", before |-> lanePersonalitySystem]
    /\ session' = NewSession
    /\ UnchangedButLanes

NextLanes == LaneTick \/ LaneReset

SpecLanes == Init /\ [][NextLanes]_vars

NeutralModifiers ==
    [gateSpawnMultiplier |-> 10, enemySpawnMultiplier |-> 10,
     gateValueMultiplier |-> 10, enemyStrengthMultiplier |-> 10]

\* Lane l held a personality before the call and its time runs out in the call.
RunsOut(l) ==
    /\ call.before.activePersonalities[l].personality # "normal"
    /\ call.before.activePersonalities[l].timeRemaining - call.deltaTime <= 0

\* Lane l held a personality before the call and its time does not run out in it.
Lasts(l) ==
    /\ call.before.activePersonalities[l].personality # "normal"
    /\ call.before.activePersonalities[l].timeRemaining - call.deltaTime > 0

\* What C19 says of assignments and of the countdown of a personality that lasts.
AssignedAfterInterval ==
    /\ call.assigned # {} => call.waited >= assignmentInterval
    /\ \A l \in call.assigned :
          /\ ~Lasts(l)
          /\ lanePersonalitySystem.activePersonalities[l].personality
                \in LanePersonalities \ {"normal"}
    /\ \A l \in Lanes :
          Lasts(l) =>
              lanePersonalitySystem.activePersonalities[l] =
                  [call.before.activePersonalities[l]
                     EXCEPT !.timeRemaining = @ - call.deltaTime]
    /\ call.expired = {l \in Lanes : RunsOut(l)}

\* C19: a personality is assigned only after 25 s of tick time since the last
\* attempt, to a lane without one, and is not NORMAL; an active personality is not
\* overwritten and counts down; on the first update that brings its time to 0 or
\* below onPersonalityExpired fires once for it and the lane reports neutral
\* modifiers again.
C19_ExpiredLaneNeutral ==
    call.op = "update" =>
        /\ AssignedAfterInterval
        /\ \A l \in Lanes :
              RunsOut(l) => GetLaneModifiers(lanePersonalitySystem, l)
                              = NeutralModifiers

\* C19 with the assignment of the same update taken into account: the lane whose
\* personality ran out reports neutral modifiers unless the update assigns it a new
\* personality.
C19_ExpiredLaneNeutralUnlessAssigned ==
    call.op = "update" =>
        /\ AssignedAfterInterval
        /\ \A l \in Lanes :
              RunsOut(l) /\ l \notin call.assigned
                  => GetLaneModifiers(lanePersonalitySystem, l) = NeutralModifiers

\* The update in which the personality of a lane ran out assigned that lane a new
\* one.
C19_ExpiredLaneAssignedAgain ==
    /\ call.op = "update"
    /\ \E l \in call.assigned : RunsOut(l)

\* C37: no personality has more than 15 s left, at most one lane has a personality,
\* and every update that reaches assignRandomPersonality() finds a lane to assign.
C37_OneLaneAtATime ==
    /\ \A l \in Lanes : lanePersonalitySystem.activePersonalities[l].timeRemaining <= 150
    /\ Cardinality({l \in Lanes : HasActivePersonality(lanePersonalitySystem, l)}) <= 1
    /\ call.op = "update" /\ call.waited >= assignmentInterval => call.assigned # {}

\* An update assigned a lane other than the one that held a personality before it.
C37_NextLaneAssigned ==
    /\ call.op = "update"
    /\ \E l \in Lanes \ call.assigned : HasActivePersonality(call.before, l)
    /\ \E l \in call.assigned : HasActivePersonality(lanePersonalitySystem, l)

(***************************************************************************)
(* ComebackSystem on its own (SpecComeback): the danger level and the      *)
(* passive multipliers.                                                    *)
(***************************************************************************)
\* C20: after updateCrowdSize(s) the danger level (in twentieths) is 1 for s <= 10,
\* (30 - s)/20 for 10 < s <= 30 and 0 for s > 30, so within [0, 1] and
\* non-increasing in s; in every state, also after reset, gateValueMultiplier is
\* 1 + 0.5 x danger (in fortieths) and enemyStrengthMultiplier 1 - 0.3 x danger
\* (in two-hundredths).
C20_DangerAndMultipliers ==
    /\ comebackSystem.dangerLevel \in 0..20
    /\ comebackSystem.gateValueMultiplier * 20
          = 40 * 20 + 20 * comebackSystem.dangerLevel
    /\ comebackSystem.enemyStrengthMultiplier * 20
          = 200 * 20 - 60 * comebackSystem.dangerLevel
    /\ call.op = "updateCrowdSize" =>
          /\ call.size <= 10 => comebackSystem.dangerLevel = 20
          /\ call.size > 10 /\ call.size <= 30
                => comebackSystem.dangerLevel = 30 - call.size
          /\ call.size > 30 => comebackSystem.dangerLevel = 0
          /\ \A smaller \in CrowdSizes :
                smaller <= call.size
                    => UpdateCrowdSize(call.before, smaller, FALSE).cb.dangerLevel
                         >= comebackSystem.dangerLevel

\* updateCrowdSize(30) has brought a crowd that was in danger out of it.
C20_OutOfDangerAtThirty ==
    /\ call.op = "updateCrowdSize"
    /\ call.size = 30
    /\ call.before.dangerLevel = 10
    /\ comebackSystem.gateValueMultiplier = 40
    /\ comebackSystem.enemyStrengthMultiplier = 200

\* C21: updateCrowdSize calls onComebackTriggered once exactly when the danger level
\* rises by more than 0.3 and no assist was triggered in the last 10 s of update
\* time (none at all in the session included); the assist is SHIELD_GRANT below a
\* danger of 0.8.  call.assisted and call.sinceAssist are the observations of the
\* session before the call.
C21_AssistWhenDangerRises ==
    call.op = "updateCrowdSize" =>
        /\ call.fired # "none"
              <=> /\ comebackSystem.dangerLevel > call.before.dangerLevel + 6
                  /\ ~call.assisted \/ call.sinceAssist >= HELP_COOLDOWN
        /\ call.fired \in {"none", "powerup_rain", "shield_grant"}
        /\ call.fired = "powerup_rain" => comebackSystem.dangerLevel >= 16

(***************************************************************************)
(* CriticalHitSystem on its own: rollCritical and setLuckMultiplier.       *)
(***************************************************************************)
UnchangedButCritical ==
    UNCHANGED <<otherSystems, gameState, distance, manualSpeedMultiplier,
                pendingFrames, player, obstacles, spawnTimer, activePowerUps,
                powerUpManager, comebackSystem, comboSystem, difficultySystem,
                randomEventSystem, momentumSystem, adaptiveDifficultySystem, tick,
                fieldSpawns, session>>

CallRollCritical ==
    /\ steps < MaxCalls
    /\ steps' = steps + 1
    /\ \E baseValue \in LeafCritBases, roll \in LeafCritRolls :
         /\ criticalHitSystem' = RollCritical(criticalHitSystem, baseValue, roll).cs
         /\ call' = [op |-> "rollCritical", baseValue |-> baseValue, roll |-> roll,
                     before |-> criticalHitSystem,
                     result |-> RollCritical(criticalHitSystem, baseValue, roll).value,
                     fired |-> CritTier(criticalHitSystem, roll)]
    /\ UnchangedButCritical

CallSetLuckMultiplier ==
    /\ steps < MaxCalls
    /\ steps' = steps + 1
    /\ \E multiplier \in LuckMultipliers :
         /\ criticalHitSystem' = SetLuckMultiplier(criticalHitSystem, multiplier)
         /\ call' = [op |-> "setLuckMultiplier", before |-> criticalHitSystem]
    /\ UnchangedButCritical

NextCritical == CallRollCritical \/ CallSetLuckMultiplier

SpecCritical == Init /\ [][NextCritical]_vars

\* The tier C22 names for the roll and the luck of the last call: the roll in
\* ten-thousandths against 0.005, 0.02 and 0.10 times the luck in hundredths.
ClaimedTier ==
    IF call.roll * 100 < 50 * call.before.luckMultiplier THEN "ultra"
    ELSE IF call.roll * 100 < 200 * call.before.luckMultiplier THEN "mega"
    ELSE IF call.roll * 100 < 1000 * call.before.luckMultiplier THEN "normal"
    ELSE "none"

\* C22: rollCritical(base) returns base x 10, x 5 or x 2 for a roll below 0.005 L,
\* 0.02 L or 0.10 L, raising the count of that tier and the total by 1 and firing
\* onCriticalHit; otherwise it returns base, changes no counter and fires nothing;
\* with L = 0 no roll is a crit.
C22_RollCritical ==
    call.op = "rollCritical" =>
        /\ call.fired = ClaimedTier
        /\ call.before.luckMultiplier = 0 => call.fired = "none"
        /\ ClaimedTier = "none"
              => call.result = call.baseValue /\ criticalHitSystem = call.before
        /\ ClaimedTier = "ultra" => call.result = call.baseValue * 10
        /\ ClaimedTier = "mega" => call.result = call.baseValue * 5
        /\ ClaimedTier = "normal" => call.result = call.baseValue * 2
        /\ ClaimedTier # "none"
              => criticalHitSystem =
                   [call.before EXCEPT !.totalCrits = @ + 1, ![ClaimedTier] = @ + 1]

\* A roll that is an ultra crit only because the luck is above 1.
C22_LuckyUltra ==
    /\ call.op = "rollCritical"
    /\ call.fired = "ultra"
    /\ call.roll >= 50
    /\ criticalHitSystem.ultra = call.before.ultra + 1

(***************************************************************************)
(* AdaptiveDifficultySystem on its own: update, the recorders,             *)
(* updateCrowdSize and reset called in any order, from the state after     *)
(* construction and from the state LaterPerformance of a longer run.       *)
(* session.idle is the tick time since the last evaluation.                *)
(***************************************************************************)
\* The recorder counters after the calls listed at LaterPerformance.
LaterAdaptive == [gatesCollected |-> 4, enemiesHit |-> 2]

\* The state a new system is in after the calls
\*   update(15) update(15)
\*   recordGateCollected recordEnemyAvoided updateCrowdSize(100) update(15)
\*   recordGateMissed recordEnemyHit updateCrowdSize(0) update(15)
\*   recordGateCollected recordEnemyAvoided update(15)
\*   recordGateMissed recordEnemyHit update(15)
\*   recordGateCollected recordEnemyAvoided recordGateCollected recordEnemyAvoided
\* whose six evaluations score 0.5, 0.5, 1.0, 0.58, 0.7133.., 0.58 and set the trend
\* to increasing, stable, increasing and stable again.
LaterPerformance ==
    [gatesMissed |-> 2, enemiesAvoided |-> 4, averageCrowdSize |-> 9000, deaths |-> 0,
     performanceHistory |-> <<525000, 525000, 1050000, 609000, 749000, 609000>>,
     timeSinceEvaluation |-> 0,
     obstacleFrequencyMultiplier |-> 11710000,
     enemyStrengthMultiplier |-> 11710000,
     rewardMultiplier |-> 9145000,
     powerUpFrequencyMultiplier |-> 9145000,
     currentTrend |-> "stable"]

\* The state a new system is in after the calls
\*   recordGateCollected recordEnemyAvoided update(15) update(15) update(15)
\* whose three evaluations score 0.8 and set the trend to increasing.
RisingAdaptive == RecordGateCollected(NewAdaptive)
RisingPerformance ==
    AdaptiveUpdate(
        RisingAdaptive,
        AdaptiveUpdate(
            RisingAdaptive,
            AdaptiveUpdate(RisingAdaptive, RecordEnemyAvoided(NewPerformance),
                           evaluationInterval).p,
            evaluationInterval).p,
        evaluationInterval).p

InitAdaptive ==
    /\ gameState = "MENU"
    /\ distance = 0
    /\ manualSpeedMultiplier = 1
    /\ pendingFrames = 0
    /\ player = NewPlayer
    /\ obstacles = <<>>
    /\ spawnTimer = 0
    /\ activePowerUps = <<>>
    /\ powerUpManager = NoPowerUps
    /\ comboSystem = NewCombo
    /\ difficultySystem = NewDifficulty
    /\ randomEventSystem \in {NewRandomEvent(i) : i \in EventIntervals}
    /\ momentumSystem = NewMomentum
    /\ comebackSystem = NewComeback
    /\ criticalHitSystem = NewCritical
    /\ obstaclePatternSystem = NewPatternSystem
    /\ lanePersonalitySystem = NewLanePersonality
    /\ \E start \in {"new", "later", "rising"} :
         /\ adaptiveDifficultySystem =
                CASE start = "new" -> NewAdaptive
                  [] start = "later" -> LaterAdaptive
                  [] start = "rising" -> RisingAdaptive
         /\ adaptivePerformance =
                CASE start = "new" -> NewPerformance
                  [] start = "later" -> LaterPerformance
                  [] start = "rising" -> RisingPerformance
    /\ hostRuns = <<NewRun, NewRun>>
    /\ mutationSystem = NewMutationSystem
    /\ regeneration = [elapsed |-> 0, gained |-> 0]
    /\ tick = Observations(World)
    /\ call = NoCall
    /\ session = NewSession
    /\ fieldSpawns = 0
    /\ steps = 0

UnchangedButAdaptive ==
    UNCHANGED <<obstaclePatternSystem, lanePersonalitySystem, hostRuns, mutationSystem,
                regeneration, gameState, distance,
                manualSpeedMultiplier, pendingFrames, player, obstacles, spawnTimer,
                activePowerUps, powerUpManager, comebackSystem, comboSystem,
                difficultySystem, randomEventSystem, momentumSystem,
                criticalHitSystem, tick, fieldSpawns>>

\* The observations of a call that is not update(): no callback, no evaluation.
Recorded(op) ==
    [op |-> op, deltaTime |-> 0, waited |-> session.idle,
     before |-> [a |-> adaptiveDifficultySystem, p |-> adaptivePerformance],
     fired |-> "none", evaluated |-> FALSE]

AdaptiveTick ==
    /\ steps < MaxAdaptiveCalls
    /\ steps' = steps + 1
    /\ \E deltaTime \in AdaptiveTickLengths :
         LET r == AdaptiveUpdate(adaptiveDifficultySystem, adaptivePerformance,
                                 deltaTime)
         IN  /\ adaptivePerformance' = r.p
             /\ call' = [Recorded("update") EXCEPT
                           !.deltaTime = deltaTime,
                           !.waited = session.idle + deltaTime,
                           !.fired = r.fired, !.evaluated = r.evaluated]
             /\ session' = [session EXCEPT
                              !.idle = IF r.evaluated THEN 0 ELSE @ + deltaTime]
    /\ UNCHANGED adaptiveDifficultySystem
    /\ UnchangedButAdaptive

AdaptiveRecordGateCollected ==
    /\ steps < MaxAdaptiveCalls
    /\ steps' = steps + 1
    /\ adaptiveDifficultySystem.gatesCollected + adaptivePerformance.gatesMissed
         < MaxRecorded
    /\ adaptiveDifficultySystem' = RecordGateCollected(adaptiveDifficultySystem)
    /\ call' = Recorded("recordGateCollected")
    /\ UNCHANGED <<adaptivePerformance, session>>
    /\ UnchangedButAdaptive

AdaptiveRecordGateMissed ==
    /\ steps < MaxAdaptiveCalls
    /\ steps' = steps + 1
    /\ adaptiveDifficultySystem.gatesCollected + adaptivePerformance.gatesMissed
         < MaxRecorded
    /\ adaptivePerformance' = RecordGateMissed(adaptivePerformance)
    /\ call' = Recorded("recordGateMissed")
    /\ UNCHANGED <<adaptiveDifficultySystem, session>>
    /\ UnchangedButAdaptive

AdaptiveRecordEnemyHit ==
    /\ steps < MaxAdaptiveCalls
    /\ steps' = steps + 1
    /\ adaptiveDifficultySystem.enemiesHit + adaptivePerformance.enemiesAvoided
         < MaxRecorded
    /\ adaptiveDifficultySystem' = RecordEnemyHit(adaptiveDifficultySystem)
    /\ call' = Recorded("recordEnemyHit")
    /\ UNCHANGED <<adaptivePerformance, session>>
    /\ UnchangedButAdaptive

AdaptiveRecordEnemyAvoided ==
    /\ steps < MaxAdaptiveCalls
    /\ steps' = steps + 1
    /\ adaptiveDifficultySystem.enemiesHit + adaptivePerformance.enemiesAvoided
         < MaxRecorded
    /\ adaptivePerformance' = RecordEnemyAvoided(adaptivePerformance)
    /\ call' = Recorded("recordEnemyAvoided")
    /\ UNCHANGED <<adaptiveDifficultySystem, session>>
    /\ UnchangedButAdaptive

AdaptiveRecordDeath ==
    /\ steps < MaxAdaptiveCalls
    /\ steps' = steps + 1
    /\ adaptivePerformance.deaths < 1
    /\ adaptivePerformance' = RecordDeath(adaptivePerformance)
    /\ call' = Recorded("recordDeath")
    /\ UNCHANGED <<adaptiveDifficultySystem, session>>
    /\ UnchangedButAdaptive

AdaptiveCrowdSize ==
    /\ steps < MaxAdaptiveCalls
    /\ steps' = steps + 1
    /\ session.crowdUpdates < MaxCrowdUpdates
    /\ \E size \in AdaptiveCrowdSizes :
         adaptivePerformance' = AdaptiveUpdateCrowdSize(adaptivePerformance, size)
    /\ call' = Recorded("updateCrowdSize")
    /\ session' = [session EXCEPT !.crowdUpdates = @ + 1]
    /\ UNCHANGED adaptiveDifficultySystem
    /\ UnchangedButAdaptive

AdaptiveReset ==
    /\ steps < MaxAdaptiveCalls
    /\ steps' = steps + 1
    /\ adaptiveDifficultySystem' = NewAdaptive
    /\ adaptivePerformance' = NewPerformance
    /\ call' = Recorded("reset")
    /\ session' = NewSession
    /\ UnchangedButAdaptive

NextAdaptive ==
    \/ AdaptiveTick
    \/ AdaptiveRecordGateCollected
    \/ AdaptiveRecordGateMissed
    \/ AdaptiveRecordEnemyHit
    \/ AdaptiveRecordEnemyAvoided
    \/ AdaptiveRecordDeath
    \/ AdaptiveCrowdSize
    \/ AdaptiveReset

SpecAdaptive == InitAdaptive /\ [][NextAdaptive]_vars

\* The trend and the four multipliers of a record.
Tuning(p) ==
    <<p.currentTrend, p.obstacleFrequencyMultiplier, p.enemyStrengthMultiplier,
      p.rewardMultiplier, p.powerUpFrequencyMultiplier>>

\* The last call was an update that evaluated with at least 3 scores in the history.
Judged ==
    /\ call.op = "update"
    /\ call.evaluated
    /\ Len(adaptivePerformance.performanceHistory) >= 3

\* C23: an update evaluates exactly when 15 s of tick time have accumulated since
\* the last evaluation; the history holds at most 10 scores; no call but an
\* evaluation with at least 3 scores changes the trend or a multiplier or fires
\* onDifficultyAdjusted; such an evaluation fires it, with the trend classified from
\* the average score, exactly when that trend differs from the current one.
C23_EvaluationAndCallback ==
    /\ Len(adaptivePerformance.performanceHistory) <= historySize
    /\ call.op = "update" =>
          /\ call.evaluated <=> call.waited >= evaluationInterval
          /\ call.evaluated =>
                Len(adaptivePerformance.performanceHistory)
                  = Min(historySize, Len(call.before.p.performanceHistory) + 1)
    /\ call.op \notin {"none", "reset"} /\ ~Judged =>
          /\ Tuning(adaptivePerformance) = Tuning(call.before.p)
          /\ call.fired = "none"
    /\ Judged =>
          /\ call.fired # "none"
                <=> ClassifiedTrend(adaptivePerformance.performanceHistory)
                      # call.before.p.currentTrend
          /\ call.fired \in
                {"none", ClassifiedTrend(adaptivePerformance.performanceHistory)}
          /\ adaptivePerformance.currentTrend
                = ClassifiedTrend(adaptivePerformance.performanceHistory)
          /\ call.fired = "none"
                => Tuning(adaptivePerformance) = Tuning(call.before.p)

\* The third evaluation of a new system changes the trend and fires the callback.
C23_ThirdEvaluationFires ==
    /\ Judged
    /\ Len(adaptivePerformance.performanceHistory) = 3
    /\ call.fired # "none"

\* C24: every score is in [0, 1], the obstacle-frequency and enemy-strength
\* multipliers are in [0.7, 1.3], the reward multiplier in [0.9, 1.3] and the
\* power-up-frequency multiplier in [0.8, 1.4].
C24_ScoreAndMultiplierRanges ==
    /\ \A i \in 1..Len(adaptivePerformance.performanceHistory) :
          /\ adaptivePerformance.performanceHistory[i] >= 0
          /\ adaptivePerformance.performanceHistory[i] <= ScoreOne
    /\ adaptivePerformance.obstacleFrequencyMultiplier >= 7000000
    /\ adaptivePerformance.obstacleFrequencyMultiplier <= 13000000
    /\ adaptivePerformance.enemyStrengthMultiplier >= 7000000
    /\ adaptivePerformance.enemyStrengthMultiplier <= 13000000
    /\ adaptivePerformance.rewardMultiplier >= 9000000
    /\ adaptivePerformance.rewardMultiplier <= 13000000
    /\ adaptivePerformance.powerUpFrequencyMultiplier >= 8000000
    /\ adaptivePerformance.powerUpFrequencyMultiplier <= 14000000

\* An increasing trend has lowered the reward multiplier to its floor of 0.9 from a
\* value less than 0.05 above it.
C24_RewardHeldAtFloor ==
    /\ Judged
    /\ call.fired = "increasing"
    /\ call.before.p.rewardMultiplier < 9500000
    /\ adaptivePerformance.rewardMultiplier = 9000000

\* C25: every evaluation with at least 3 scores whose classified trend is stable
\* moves each of the four multipliers 10% of its distance toward 1.0, also when the
\* evaluation before it was stable.
C25_StableMovesTowardOne ==
    Judged /\ ClassifiedTrend(adaptivePerformance.performanceHistory) = "stable" =>
        /\ adaptivePerformance.obstacleFrequencyMultiplier
             = Lerp(call.before.p.obstacleFrequencyMultiplier)
        /\ adaptivePerformance.enemyStrengthMultiplier
             = Lerp(call.before.p.enemyStrengthMultiplier)
        /\ adaptivePerformance.rewardMultiplier
             = Lerp(call.before.p.rewardMultiplier)
        /\ adaptivePerformance.powerUpFrequencyMultiplier
             = Lerp(call.before.p.powerUpFrequencyMultiplier)

\* C35: no evaluation changes the trend from increasing to decreasing or from
\* decreasing to increasing: between the two the trend is stable for at least one
\* evaluation.
C35_NoDirectReversal ==
    call.op = "update" /\ call.evaluated =>
        {call.before.p.currentTrend, adaptivePerformance.currentTrend}
            # {"increasing", "decreasing"}

\* An evaluation that found the trend increasing and left it stable.
C35_IncreasingToStable ==
    /\ Judged
    /\ call.before.p.currentTrend = "increasing"
    /\ adaptivePerformance.currentTrend = "stable"

(***************************************************************************)
(* ComboSystem on its own: addToCombo, resetCombo, getMultiplier, update   *)
(* and destroy called in any order on a new system.  session.idle is the   *)
(* tick time since the last addToCombo; session.armed says that there was  *)
(* an addToCombo and neither a resetCombo nor an expiry after it.          *)
(***************************************************************************)
UnchangedButCombo ==
    /\ UNCHANGED otherSystems
    /\ UNCHANGED <<gameState, distance, manualSpeedMultiplier, pendingFrames, player,
                   obstacles, spawnTimer, activePowerUps, powerUpManager,
                   comebackSystem, adaptiveDifficultySystem, difficultySystem,
                   randomEventSystem, momentumSystem, criticalHitSystem, tick,
                   fieldSpawns>>

\* The observations of a call: the system before it, the session before it, whether
\* onComboExpired was called, and the value returned (0: none).
ComboObserved(op, deltaTime, expired, result) ==
    [op |-> op, deltaTime |-> deltaTime, before |-> comboSystem,
     armed |-> session.armed, waited |-> session.idle + deltaTime,
     expired |-> expired, result |-> result]

ComboAdd ==
    /\ steps < MaxComboCalls
    /\ steps' = steps + 1
    /\ comboSystem' = AddToCombo(comboSystem)
    /\ call' = ComboObserved("addToCombo", 0, FALSE, 0)
    /\ session' = [session EXCEPT !.idle = 0, !.armed = TRUE]
    /\ UnchangedButCombo

ComboReset ==
    /\ steps < MaxComboCalls
    /\ steps' = steps + 1
    /\ comboSystem' = ResetCombo(comboSystem)
    /\ call' = ComboObserved("resetCombo", 0, ResetComboExpires(comboSystem), 0)
    /\ session' = [session EXCEPT !.armed = FALSE]
    /\ UnchangedButCombo

ComboDestroy ==
    /\ steps < MaxComboCalls
    /\ steps' = steps + 1
    /\ comboSystem' = ResetCombo(comboSystem)
    /\ call' = ComboObserved("destroy", 0, ResetComboExpires(comboSystem), 0)
    /\ session' = [session EXCEPT !.armed = FALSE]
    /\ UnchangedButCombo

ComboGetMultiplier ==
    /\ steps < MaxComboCalls
    /\ steps' = steps + 1
    /\ call' = ComboObserved("getMultiplier", 0, FALSE, GetMultiplier(comboSystem))
    /\ UNCHANGED <<comboSystem, session>>
    /\ UnchangedButCombo

ComboTick ==
    /\ steps < MaxComboCalls
    /\ steps' = steps + 1
    /\ \E deltaTime \in ComboTickLengths :
         /\ comboSystem' = ComboUpdate(comboSystem, deltaTime)
         /\ call' = ComboObserved("update", deltaTime,
                                  ComboUpdateExpires(comboSystem, deltaTime), 0)
         /\ session' = [session EXCEPT
                          !.idle = Min(2 * COMBO_TIMEOUT, @ + deltaTime),
                          !.armed = @ /\ ~ComboUpdateExpires(comboSystem, deltaTime)]
    /\ UnchangedButCombo

NextCombo ==
    \/ ComboAdd
    \/ ComboReset
    \/ ComboDestroy
    \/ ComboGetMultiplier
    \/ ComboTick

SpecCombo == Init /\ [][NextCombo]_vars

\* C26: addToCombo adds 1 to the combo and restarts the 3.0 s window; with no
\* addToCombo or resetCombo in between, the first update at which the tick time since
\* the last addToCombo has reached 3.0 s resets the combo to 0 and calls
\* onComboExpired, and no other update calls it; resetCombo calls onComboExpired
\* exactly when the combo is above 0.
C26_ComboWindow ==
    /\ call.op = "addToCombo" =>
          /\ comboSystem.comboCount = call.before.comboCount + 1
          /\ comboSystem.comboTimer = 30
          /\ ~call.expired
    /\ call.op = "update" =>
          /\ call.expired <=> call.armed /\ call.waited >= 30
          /\ comboSystem.comboCount
               = IF call.expired THEN 0 ELSE call.before.comboCount
    /\ call.op = "resetCombo" =>
          /\ call.expired <=> call.before.comboCount > 0
          /\ comboSystem.comboCount = 0

\* An update ends a combo when the tick time since addToCombo is exactly 3.0 s.
C26_ExpiresAtThreeSeconds ==
    /\ call.op = "update"
    /\ call.expired
    /\ call.waited = 30
    /\ call.deltaTime < 30
    /\ call.before.comboCount > 1

\* C27: getMultiplier returns 3.0 from a combo of 15, 2.5 from 10, 2.0 from 6,
\* 1.5 from 3 and 1.0 below 3; the combos 0, 2, 3, 5, 6, 9, 10, 14, 15, 20 give
\* 1.0, 1.0, 1.5, 1.5, 2.0, 2.0, 2.5, 2.5, 3.0, 3.0.
C27_ComboMultiplier ==
    call.op = "getMultiplier" =>
        /\ \/ comboSystem.comboCount >= 15 /\ call.result = 30
           \/ comboSystem.comboCount \in 10..14 /\ call.result = 25
           \/ comboSystem.comboCount \in 6..9 /\ call.result = 20
           \/ comboSystem.comboCount \in 3..5 /\ call.result = 15
           \/ comboSystem.comboCount < 3 /\ call.result = 10
        /\ \A row \in {<<0, 10>>, <<2, 10>>, <<3, 15>>, <<5, 15>>, <<6, 20>>,
                         <<9, 20>>, <<10, 25>>, <<14, 25>>, <<15, 30>>, <<20, 30>>} :
              comboSystem.comboCount = row[1] => call.result = row[2]

\* getMultiplier is called on a combo of 20.
C27_MultiplierOfTwenty ==
    /\ call.op = "getMultiplier"
    /\ comboSystem.comboCount = 20
    /\ call.result = 30

\* C40: the combo is above 0 exactly when its timer is above 0, and the highest
\* combo is at least the current one.
C40_ComboAndTimerAgree ==
    /\ comboSystem.comboCount > 0 <=> comboSystem.comboTimer > 0
    /\ comboSystem.maxCombo >= comboSystem.comboCount

\* An update ended a combo of 2 or more: count and timer are 0, the highest combo
\* is kept.
C40_ExpiredComboKeepsMax ==
    /\ call.op = "update"
    /\ call.expired
    /\ comboSystem.comboCount = 0
    /\ comboSystem.comboTimer = 0
    /\ comboSystem.maxCombo >= 2

(***************************************************************************)
(* MomentumSystem on its own: onGateCollected, onEnemyHit,                 *)
(* getGateMultiplier, update and reset called in any order on a new        *)
(* system.  session.idle is the tick time since the last onEnemyHit or     *)
(* reset; session.assisted says that onAutoShield was called after it;     *)
(* session.emitted lists the calls of onAutoShield.                        *)
(***************************************************************************)
UnchangedButMomentum ==
    /\ UNCHANGED otherSystems
    /\ UNCHANGED <<gameState, distance, manualSpeedMultiplier, pendingFrames, player,
                   obstacles, spawnTimer, activePowerUps, powerUpManager,
                   comebackSystem, adaptiveDifficultySystem, difficultySystem,
                   randomEventSystem, comboSystem, criticalHitSystem, tick,
                   fieldSpawns>>

\* The observations of a call: the system and the session before it, the tier passed
\* to onTierChange ("none": no call), whether onAutoShield was called, and the
\* value returned (0: none).
MomentumObserved(op, deltaTime, tierChange, autoShield, result) ==
    [op |-> op, deltaTime |-> deltaTime, before |-> momentumSystem,
     granted |-> session.assisted, waited |-> session.idle + deltaTime,
     tierChange |-> tierChange, autoShield |-> autoShield, result |-> result]

MomentumGate ==
    /\ steps < MaxMomentumCalls
    /\ steps' = steps + 1
    /\ momentumSystem' = OnGateCollected(momentumSystem)
    /\ call' = MomentumObserved("onGateCollected", 0,
                    UpdateTierFires([momentumSystem EXCEPT !.consecutiveGates = @ + 1]),
                    FALSE, 0)
    /\ UNCHANGED session
    /\ UnchangedButMomentum

MomentumHit ==
    /\ steps < MaxMomentumCalls
    /\ steps' = steps + 1
    /\ momentumSystem' = OnEnemyHit(momentumSystem)
    /\ call' = MomentumObserved("onEnemyHit", 0,
                    UpdateTierFires([momentumSystem EXCEPT !.consecutiveGates = 0]),
                    FALSE, 0)
    /\ session' = [session EXCEPT !.idle = 0, !.assisted = FALSE]
    /\ UnchangedButMomentum

MomentumGetGateMultiplier ==
    /\ steps < MaxMomentumCalls
    /\ steps' = steps + 1
    /\ call' = MomentumObserved("getGateMultiplier", 0, "none", FALSE,
                                GetGateMultiplier(momentumSystem))
    /\ UNCHANGED <<momentumSystem, session>>
    /\ UnchangedButMomentum

MomentumTick ==
    /\ steps < MaxMomentumCalls
    /\ steps' = steps + 1
    /\ \E deltaTime \in MomentumTickLengths :
         LET r == MomentumUpdate(momentumSystem, deltaTime)
         IN  /\ momentumSystem' = r.m
             /\ call' = MomentumObserved("update", deltaTime, "none", r.autoShield, 0)
             /\ session' = [session EXCEPT
                              !.idle = @ + deltaTime,
                              !.assisted = @ \/ r.autoShield,
                              !.emitted = IF r.autoShield
                                          THEN Append(@, "onAutoShield") ELSE @]
    /\ UnchangedButMomentum

MomentumReset ==
    /\ steps < MaxMomentumCalls
    /\ steps' = steps + 1
    /\ momentumSystem' = NewMomentum
    /\ call' = MomentumObserved("reset", 0, "none", FALSE, 0)
    /\ session' = NewSession
    /\ UnchangedButMomentum

NextMomentum ==
    \/ MomentumGate
    \/ MomentumHit
    \/ MomentumGetGateMultiplier
    \/ MomentumTick
    \/ MomentumReset

SpecMomentum == Init /\ [][NextMomentum]_vars

\* C28: the tier is UNSTOPPABLE from a streak of 8 gates, BLAZING from 5, HOT from 3
\* and NONE below, with gate multipliers 2.0, 1.5, 1.25 and 1.0; onEnemyHit sets the
\* streak to 0; onGateCollected and onEnemyHit call onTierChange, with the new tier,
\* exactly when they change the tier.
C28_MomentumTier ==
    /\ \/ momentumSystem.consecutiveGates >= 8
            /\ momentumSystem.currentTier = "UNSTOPPABLE"
       \/ momentumSystem.consecutiveGates \in 5..7
            /\ momentumSystem.currentTier = "BLAZING"
       \/ momentumSystem.consecutiveGates \in 3..4
            /\ momentumSystem.currentTier = "HOT"
       \/ momentumSystem.consecutiveGates < 3
            /\ momentumSystem.currentTier = "NONE"
    /\ call.op = "getGateMultiplier" =>
          call.result = CASE momentumSystem.consecutiveGates >= 8 -> 200
                          [] momentumSystem.consecutiveGates \in 5..7 -> 150
                          [] momentumSystem.consecutiveGates \in 3..4 -> 125
                          [] OTHER -> 100
    /\ call.op = "onEnemyHit" => momentumSystem.consecutiveGates = 0
    /\ call.op = "onGateCollected" =>
          momentumSystem.consecutiveGates = call.before.consecutiveGates + 1
    /\ call.op \in {"onGateCollected", "onEnemyHit"} =>
          /\ call.tierChange # "none"
                <=> momentumSystem.currentTier # call.before.currentTier
          /\ call.tierChange \in {"none", momentumSystem.currentTier}

\* An enemy hit ends a streak of 8 gates and onTierChange is called with NONE.
C28_HitEndsUnstoppable ==
    /\ call.op = "onEnemyHit"
    /\ call.before.consecutiveGates = 8
    /\ call.before.currentTier = "UNSTOPPABLE"
    /\ call.tierChange = "NONE"

\* C29: an update calls onAutoShield exactly when the tick time since the last
\* onEnemyHit or reset has reached 20 s and onAutoShield has not been called since
\* then; onEnemyHit restarts the no-damage time at 0 and makes the grant available
\* again.
C29_AutoShieldOnce ==
    /\ call.op = "update" =>
          call.autoShield <=> call.waited >= 200 /\ ~call.granted
    /\ call.op \in {"onGateCollected", "onEnemyHit", "getGateMultiplier", "reset"}
          => ~call.autoShield
    /\ call.op = "onEnemyHit" =>
          /\ momentumSystem.noDamageTimer = 0
          /\ momentumSystem.consecutiveNoDamage = 0

\* onAutoShield is called a second time, 20 s after an enemy hit that followed the
\* first call.
C29_GrantedAgainAfterHit ==
    /\ call.op = "update"
    /\ call.autoShield
    /\ call.waited = 200
    /\ Len(session.emitted) = 2

(***************************************************************************)
(* The speed of a tick: the game with the speed slider of the UI and with  *)
(* collected speed boosts and time slows.  startGame() does not clear the  *)
(* buff registry, so a buff may be active from the first tick of a game.   *)
(***************************************************************************)
UnchangedButSpeed ==
    /\ UNCHANGED otherSystems
    /\ UNCHANGED <<gameState, distance, pendingFrames, player, obstacles, spawnTimer,
                   activePowerUps, comebackSystem, comboSystem, difficultySystem,
                   randomEventSystem, momentumSystem, adaptiveDifficultySystem,
                   criticalHitSystem, tick, fieldSpawns, session>>

SpeedStart == steps < MaxSpeedSteps /\ StartGame

SpeedFrame == steps < MaxSpeedSteps /\ FrameCallback

\* The onSpeedChange callback of the UI.
SpeedChange ==
    /\ steps < MaxSpeedSteps
    /\ steps' = steps + 1
    /\ \E speed \in ManualSpeeds :
         /\ manualSpeedMultiplier' = speed
         /\ call' = [op |-> "speedChange", speed |-> speed]
    /\ UNCHANGED powerUpManager
    /\ UnchangedButSpeed

\* activatePowerUp(type, duration) for a collected speed boost or time slow.
SpeedActivate ==
    /\ steps < MaxSpeedSteps
    /\ steps' = steps + 1
    /\ \E type \in SpeedBuffTypes, duration \in SpeedBuffDurations :
         /\ powerUpManager' = ActivatePowerUp(powerUpManager, type, duration)
         /\ call' = [op |-> "activatePowerUp", type |-> type, duration |-> duration]
    /\ UNCHANGED manualSpeedMultiplier
    /\ UnchangedButSpeed

NextSpeed == SpeedStart \/ SpeedFrame \/ SpeedChange \/ SpeedActivate

SpecSpeed == Init /\ [][NextSpeed]_vars

\* The last step was a call of gameLoop() that ran update().
TickJustRan == call.op \in {"startGame", "frame"} /\ tick.ran

\* C30: the distance a tick adds is dt x manual speed x difficulty speed x buff speed
\* x 10, where the buff speed is 1.5 with only the speed boost active, 0.6 with only
\* the time slow, 0.9 with both and 1.0 with neither.  Time in tenths of a second,
\* the difficulty speed 1 + 0.3 * (level - 1) / 9 in thirtieths, the buff speed in
\* tenths: the product is the adjusted delta in 1/3000 s, and 10 times that many
\* seconds of distance is the same number of 1/300 units of distance.
C30_TickSpeed ==
    TickJustRan =>
        distance - tick.entry.distance
          = tick.deltaTime * manualSpeedMultiplier
              * (30 + (tick.entry.difficultySystem.currentLevel - 1))
              * (CASE /\ tick.entry.powerUpManager["speed_boost"].active
                      /\ tick.entry.powerUpManager["time_slow"].active -> 9
                   [] /\ tick.entry.powerUpManager["speed_boost"].active
                      /\ ~tick.entry.powerUpManager["time_slow"].active -> 15
                   [] /\ ~tick.entry.powerUpManager["speed_boost"].active
                      /\ tick.entry.powerUpManager["time_slow"].active -> 6
                   [] OTHER -> 10)

\* A tick with the speed boost and the time slow both active.
C30_BothBuffs ==
    /\ TickJustRan
    /\ tick.deltaTime > 0
    /\ tick.entry.powerUpManager["speed_boost"].active
    /\ tick.entry.powerUpManager["time_slow"].active

(***************************************************************************)
(* NearMissSystem and EnemyMutationSystem on two hosts: every step calls   *)
(* the same method with the same arguments and the same random draws in    *)
(* both runs, while the clock of each host advances on its own.            *)
(***************************************************************************)
UnchangedButClock ==
    UNCHANGED <<obstaclePatternSystem, lanePersonalitySystem, adaptivePerformance,
                mutationSystem, regeneration,
                gameState, distance, manualSpeedMultiplier, pendingFrames, player,
                obstacles, spawnTimer, activePowerUps, powerUpManager, comebackSystem,
                comboSystem, difficultySystem, randomEventSystem, momentumSystem,
                adaptiveDifficultySystem, criticalHitSystem, tick, fieldSpawns,
                session>>

HostCheckNearMiss(run, lateralDistance, currentTime) ==
    [run EXCEPT
       !.nearMiss = CheckNearMiss(@, lateralDistance, currentTime).n,
       !.emitted = @ \o CheckNearMiss(run.nearMiss, lateralDistance, currentTime).fired]

HostUpdate(run) == [run EXCEPT !.nearMiss = NearMissUpdate(@, run.clock)]

HostRollMutation(run, roll, pick) ==
    [run EXCEPT
       !.rolled = CreateMutation(RollMutation(roll, pick), run.clock),
       !.emitted = IF MutationSpawned(RollMutation(roll, pick))
                   THEN Append(@, [callback |-> "onMutationSpawned",
                                   type |-> RollMutation(roll, pick)])
                   ELSE @]

HostRegisterMutation(run) == [run EXCEPT !.active = RegisterMutation(@, run.rolled)]

HostGetRegenerationMultiplier(run) ==
    [run EXCEPT !.returned = GetRegenerationMultiplier(run.active, run.clock)]

HostReset(run) == [run EXCEPT !.nearMiss = NewNearMiss, !.active = NoMutation]

\* The two runs with their clocks advanced by a and b.
Later(a, b) ==
    <<[hostRuns[1] EXCEPT !.clock = @ + a], [hostRuns[2] EXCEPT !.clock = @ + b]>>

ClockCheckNearMiss ==
    /\ steps < MaxClockCalls
    /\ steps' = steps + 1
    /\ \E a \in ClockAdvances, b \in ClockAdvances,
          lateralDistance \in LateralDistances, currentTime \in NearMissTimes :
         /\ hostRuns' = <<HostCheckNearMiss(Later(a, b)[1], lateralDistance, currentTime),
                          HostCheckNearMiss(Later(a, b)[2], lateralDistance, currentTime)>>
         /\ call' = [op |-> "checkNearMiss", lateralDistance |-> lateralDistance,
                     currentTime |-> currentTime]
    /\ UnchangedButClock

ClockUpdate ==
    /\ steps < MaxClockCalls
    /\ steps' = steps + 1
    /\ \E a \in ClockAdvances, b \in ClockAdvances :
         hostRuns' = <<HostUpdate(Later(a, b)[1]), HostUpdate(Later(a, b)[2])>>
    /\ call' = [op |-> "update"]
    /\ UnchangedButClock

ClockRollMutation ==
    /\ steps < MaxClockCalls
    /\ steps' = steps + 1
    /\ \E a \in ClockAdvances, b \in ClockAdvances, draw \in ClockMutationDraws :
         /\ hostRuns' = <<HostRollMutation(Later(a, b)[1], draw[1], draw[2]),
                          HostRollMutation(Later(a, b)[2], draw[1], draw[2])>>
         /\ call' = [op |-> "rollMutation", roll |-> draw[1], pick |-> draw[2]]
    /\ UnchangedButClock

ClockRegisterMutation ==
    /\ steps < MaxClockCalls
    /\ steps' = steps + 1
    /\ hostRuns[1].rolled.type # "none"
    /\ \E a \in ClockAdvances, b \in ClockAdvances :
         hostRuns' = <<HostRegisterMutation(Later(a, b)[1]),
                       HostRegisterMutation(Later(a, b)[2])>>
    /\ call' = [op |-> "registerMutation"]
    /\ UnchangedButClock

ClockGetRegenerationMultiplier ==
    /\ steps < MaxClockCalls
    /\ steps' = steps + 1
    /\ \E a \in ClockAdvances, b \in ClockAdvances :
         hostRuns' = <<HostGetRegenerationMultiplier(Later(a, b)[1]),
                       HostGetRegenerationMultiplier(Later(a, b)[2])>>
    /\ call' = [op |-> "getRegenerationMultiplier"]
    /\ UnchangedButClock

ClockReset ==
    /\ steps < MaxClockCalls
    /\ steps' = steps + 1
    /\ \E a \in ClockAdvances, b \in ClockAdvances :
         hostRuns' = <<HostReset(Later(a, b)[1]), HostReset(Later(a, b)[2])>>
    /\ call' = [op |-> "reset"]
    /\ UnchangedButClock

NextClock ==
    \/ ClockCheckNearMiss
    \/ ClockUpdate
    \/ ClockRollMutation
    \/ ClockRegisterMutation
    \/ ClockGetRegenerationMultiplier
    \/ ClockReset

SpecClock == Init /\ [][NextClock]_vars

\* What a run shows besides its clock and the time stamps taken from it: the near-miss
\* streak, the callbacks emitted and the regeneration multiplier returned last.
Shown(run) ==
    [missStreak |-> run.nearMiss.missStreak, recentMisses |-> run.nearMiss.recentMisses,
     emitted |-> run.emitted, returned |-> run.returned]

\* C31: two runs given the same calls, arguments and random draws show the same
\* near-miss streak, the same callbacks and the same regeneration multiplier,
\* whatever their host clocks read.
C31_HostClockIndependent == Shown(hostRuns[1]) = Shown(hostRuns[2])

\* C32: in no tick does the handler of a callback call a mutating method of a
\* subsystem or of the player's crowd while the method that emitted the callback is
\* still running.
C32_HandlersDoNotReenter == tick.ran => tick.reentered = {}

(***************************************************************************)
(* The public commands that write a duration, a chance or a multiplier:    *)
(* activatePowerUp, setLuckMultiplier and setMutationChance, with values   *)
(* inside and outside their ranges, and the buff registry's update.        *)
(***************************************************************************)
UnchangedButWrites ==
    UNCHANGED <<obstaclePatternSystem, lanePersonalitySystem, adaptivePerformance,
                hostRuns, regeneration, gameState, distance, manualSpeedMultiplier, pendingFrames,
                player, obstacles, spawnTimer, activePowerUps, comebackSystem,
                comboSystem, difficultySystem, randomEventSystem, momentumSystem,
                adaptiveDifficultySystem, tick, fieldSpawns, session>>

WriteActivatePowerUp ==
    /\ steps < MaxCalls
    /\ steps' = steps + 1
    /\ \E type \in WrittenBuffs, duration \in WrittenDurations :
         /\ powerUpManager' = ActivatePowerUp(powerUpManager, type, duration)
         /\ call' = [op |-> "activatePowerUp", type |-> type, duration |-> duration]
    /\ UNCHANGED <<criticalHitSystem, mutationSystem>>
    /\ UnchangedButWrites

WriteUpdate ==
    /\ steps < MaxCalls
    /\ steps' = steps + 1
    /\ \E deltaTime \in LeafTickLengths :
         /\ powerUpManager' = PowerUpManagerUpdate(powerUpManager, deltaTime)
         /\ call' = [op |-> "update", deltaTime |-> deltaTime]
    /\ UNCHANGED <<criticalHitSystem, mutationSystem>>
    /\ UnchangedButWrites

WriteSetLuckMultiplier ==
    /\ steps < MaxCalls
    /\ steps' = steps + 1
    /\ \E multiplier \in LuckMultipliers :
         /\ criticalHitSystem' = SetLuckMultiplier(criticalHitSystem, multiplier)
         /\ call' = [op |-> "setLuckMultiplier", multiplier |-> multiplier]
    /\ UNCHANGED <<powerUpManager, mutationSystem>>
    /\ UnchangedButWrites

WriteSetMutationChance ==
    /\ steps < MaxCalls
    /\ steps' = steps + 1
    /\ \E chance \in WrittenChances :
         /\ mutationSystem' = SetMutationChance(mutationSystem, chance)
         /\ call' = [op |-> "setMutationChance", chance |-> chance]
    /\ UNCHANGED <<powerUpManager, criticalHitSystem>>
    /\ UnchangedButWrites

NextWrites ==
    \/ WriteActivatePowerUp
    \/ WriteUpdate
    \/ WriteSetLuckMultiplier
    \/ WriteSetMutationChance

SpecWrites == Init /\ [][NextWrites]_vars

\* C33: no value out of its range is stored: the mutation chance is in [0, 1], the
\* luck multiplier is at least 0, and no buff is reported active with a remaining
\* time of 0 or less.
C33_WritesAreClamped ==
    /\ mutationSystem.mutationChance >= 0
    /\ mutationSystem.mutationChance <= 100
    /\ criticalHitSystem.luckMultiplier >= 0
    /\ \A type \in PowerUpTypes :
          IsActive(powerUpManager, type) => powerUpManager[type].timeRemaining > 0

(***************************************************************************)
(* The regeneration buff over several ticks: activatePowerUp(REGEN) and    *)
(* the two steps of update() that touch it, powerUpManager.update and the  *)
(* regeneration itself.  regeneration.elapsed adds up the length of the    *)
(* ticks that found the buff active, regeneration.gained the crowd added.  *)
(***************************************************************************)
UnchangedButRegen ==
    UNCHANGED <<obstaclePatternSystem, lanePersonalitySystem, adaptivePerformance,
                hostRuns, mutationSystem, gameState, distance, manualSpeedMultiplier,
                pendingFrames, obstacles, spawnTimer, activePowerUps, comebackSystem,
                comboSystem, difficultySystem, randomEventSystem, momentumSystem,
                adaptiveDifficultySystem, criticalHitSystem, tick, fieldSpawns,
                session>>

RegenActivate ==
    /\ steps < MaxRegenCalls
    /\ steps' = steps + 1
    /\ \E duration \in RegenDurations :
         /\ powerUpManager' = ActivatePowerUp(powerUpManager, "regen", duration)
         /\ call' = [op |-> "activatePowerUp", type |-> "regen", duration |-> duration]
    /\ UNCHANGED <<player, regeneration>>
    /\ UnchangedButRegen

\* The world after powerUpManager.update(deltaTime) and the regeneration of update().
Regenerated(deltaTime) ==
    Regeneration([World EXCEPT !.powerUpManager = PowerUpManagerUpdate(@, deltaTime)],
                 deltaTime)

RegenTick ==
    /\ steps < MaxRegenCalls
    /\ steps' = steps + 1
    /\ \E deltaTime \in RegenTickLengths :
         /\ powerUpManager' = Regenerated(deltaTime).powerUpManager
         /\ player' = Regenerated(deltaTime).player
         /\ regeneration' =
                IF HasRegen(Regenerated(deltaTime).powerUpManager)
                THEN [elapsed |-> regeneration.elapsed + deltaTime,
                      gained |-> regeneration.gained
                                   + Regenerated(deltaTime).player.crowdCount
                                   - player.crowdCount]
                ELSE regeneration
         /\ call' = [op |-> "update", deltaTime |-> deltaTime]
    /\ UnchangedButRegen

NextRegen == RegenActivate \/ RegenTick

SpecRegen == Init /\ [][NextRegen]_vars

\* C34: over every whole number of seconds of ticks that ran with REGEN active, the
\* crowd has grown by 3 per second, however the time was divided into ticks.
C34_ThreePerSecond ==
    regeneration.elapsed % 10 = 0
        => 10 * regeneration.gained = REGEN_RATE_PER_SECOND * regeneration.elapsed

=============================================================================
